---- MODULE Spec2Model ----
(***************************************************************************)
(* pyuvsim: the distributed task-execution engine of run_uvsim             *)
(* (src/pyuvsim/uvsim.py).  The coordinator (rank 0) builds the task list, *)
(* splits it into Npus shards and scatters them; every rank computes its   *)
(* shard and reduces it into a table keyed by uvdata_index; the tables are *)
(* gathered on rank 0 and added into the output container.  An uncaught    *)
(* exception on any rank runs mpi_excepthook, which aborts the whole job.  *)
(* Spec and FairSpec are the runs of run_uvsim; ObjectSpec is the direct   *)
(* use of one Source and one AnalyticBeam object: construction and queries *)
(* in any order; SetupSpec is the direct use of the functions of simsetup  *)
(* and MpiSpec that of pyuvsim.mpi in one process of the job.              *)
(*                                                                         *)
(* Numbers.  Visibilities are complex128 4-vectors [xx, yy, xy, yx].  The  *)
(* sky of the model holds unpolarized sources that are either at the       *)
(* zenith or below the horizon, antennas on level ground and even Stokes I *)
(* fluxes, so every visibility is an integer with zero imaginary part and  *)
(* every complex128 addition of the run is exact.                          *)
(***************************************************************************)
EXTENDS Integers, Sequences, FiniteSets, TLC

\* ---------------------------------------------------------------- bounds
MaxNpus == 3
MaxNblts == 2
MaxNfreqs == 2
MaxNsrcs == 3
MaxTasks == 4
MaxNants == 3

\* Python's None (an empty tuple, so that it compares with vectors).
None == <<>>

\* A key a dictionary does not have; a key that holds v is <<v>>.
Absent == <<>>

\* Beam responses are fixed-point numbers, Unity to the unit: the response
\* 1.0 is Unity and 0.29121 is 2912.  A Jones matrix is in the same unit,
\* and a visibility, the product of two Jones matrices and a coherency, is
\* in units of 1 / (FluxUnit * Unity * Unity) Jy.
Unity == 10000

\* Fluxes and coherencies are whole numbers of 1 / FluxUnit Jy.
FluxUnit == 8

\* ------------------------------------------------------ small utilities
RECURSIVE Flatten(_)
\* sum(full_tasklist, []): concatenation of a list of lists.
Flatten(ll) == IF ll = <<>> THEN <<>> ELSE Head(ll) \o Flatten(Tail(ll))

Zero4 == <<0, 0, 0, 0>>
VecAdd(u, v) == [i \in 1..4 |-> u[i] + v[i]]

\* 2x2 matrices are <<row1, row2>>.
MatMul(A, B) == [i \in 1..2 |-> [j \in 1..2 |-> A[i][1] * B[1][j] + A[i][2] * B[2][j]]]
Transpose(A) == [i \in 1..2 |-> [j \in 1..2 |-> A[j][i]]]
MatScale(A, c) == [i \in 1..2 |-> [j \in 1..2 |-> A[i][j] * c]]

\* ------------------------------------------------------------ the inputs
\* Zenith angles are in degrees; HorizonZa is np.pi / 2.
HorizonZa == 90

\* What astropy's transform gives for a source at a time (times are the
\* integers of time_array): source "a" stays at the zenith, "b" and "c" set
\* after time 1, "d" never rises.  Source "p" is at declination 0 over a
\* telescope at latitude 0: at the zenith at time 1 (hour angle 0) and on
\* the western horizon at the later times (hour angle 90 degrees).  These
\* are the sources of the direct calls; no catalog of a run holds them.
ZenithAngle(name, time) ==
    CASE name = "a" -> 0
      [] name = "b" -> IF time = 1 THEN 0 ELSE 120
      [] name = "c" -> IF time = 1 THEN 0 ELSE 120
      [] name = "p" -> IF time = 1 THEN 0 ELSE 90
      [] OTHER      -> 120

\* The azimuth that goes with ZenithAngle, in degrees from north through
\* east: 270, due west, for "p" on the horizon, 0 for the others.
Azimuth(name, time) == IF name = "p" /\ time # 1 THEN 270 ELSE 0

SourceNames == {"a", "b", "c", "d"}
StokesI(name) ==
    CASE name = "a" -> 2 [] name = "b" -> 4 [] name = "c" -> 8 [] name = "p" -> 4 [] OTHER -> 16
\* Only "p" is polarized: stokes = [4, 2, 0, 0].
StokesQ(name) == IF name = "p" THEN 2 ELSE 0
StokesOf(name) == <<StokesI(name), StokesQ(name), 0, 0>>

\* A Source.__init__ that checks freq before ra and dec.
Source_init_raises_freq_first(ra_is_angle, dec_is_angle, freq_is_quantity) ==
    IF ~freq_is_quantity THEN "freq must be an astropy Quantity object"
    ELSE IF ~ra_is_angle THEN "ra must be an astropy Angle object"
    ELSE IF ~dec_is_angle THEN "dec must be an astropy Angle object"
    ELSE ""

\* Source.__init__ checks ra, dec and freq in this order and raises
\* ValueError with the message of the first one that is not of its type.
Source_init_raises(ra_is_angle, dec_is_angle, freq_is_quantity) ==
    IF ~ra_is_angle THEN "ra must be an astropy Angle object"
    ELSE IF ~dec_is_angle THEN "dec must be an astropy Angle object"
    ELSE IF ~freq_is_quantity THEN "freq must be an astropy Quantity object"
    ELSE ""

\* A Source.__init__ that forgets the .5 of the coherency.
SourceNoHalf(name, ra, stokes) ==
    [name |-> name,
     ra |-> ra,
     stokes |-> stokes,
     coherency_radec |-> <<<<stokes[1] + stokes[2], 0>>,
                           <<0, stokes[1] - stokes[2]>>>>]

\* Source.__init__: the source and its coherency in the ra/dec basis,
\* .5 * [[I + Q, U - iV], [U + iV, I - Q]] with U = V = 0.  ra is None
\* for the sources whose positions ZenithAngle tabulates, and <<t>> for a
\* source of declination 0 that transits at the times t, t + 3, ...
Source(name, ra, stokes) ==
    [name |-> name,
     ra |-> ra,
     stokes |-> stokes,
     coherency_radec |-> <<<<(stokes[1] + stokes[2]) \div 2, 0>>,
                           <<0, (stokes[1] - stokes[2]) \div 2>>>>]

\* The Source of a direct call.
NamedSource(name) == Source(name, None, StokesOf(name))

\* The instrument geometry (a UVData).  layout 1: one baseline (0, 1) at the
\* times 1, 2, ...; layout 2: the baselines (0, 0), (0, 1), ... at time 1.
\* Antenna number n stands 5 n metres east of antenna 0, on level ground.
\* The polarizations are XX, YY, XY, YX (-5, -6, -7, -8).
InputUV(nblts, nfreqs, layout) ==
    [Nblts |-> nblts,
     polarization_array |-> <<-5, -6, -7, -8>>,
     Nfreqs |-> nfreqs,
     time_array |-> [b \in 1..nblts |-> IF layout = 1 THEN b ELSE 1],
     ant_1_array |-> [b \in 1..nblts |-> 0],
     ant_2_array |-> [b \in 1..nblts |-> IF layout = 1 THEN 1 ELSE b - 1],
     freq_array |-> [f \in 1..nfreqs |-> 100 + 50 * (f - 1)],
     antenna_names |-> [n \in 1..nblts + 1 |-> n - 1]]

\* AnalyticBeam.supported_types of the class in uvsim.py ("uvsim") and of
\* the one in analyticbeam.py ("analyticbeam").
supported_types_uvsim == {"tophat", "gaussian"}
supported_types_analyticbeam == {"uniform", "gaussian", "airy"}
supported_types(cls) ==
    IF cls = "uvsim" THEN supported_types_uvsim ELSE supported_types_analyticbeam

\* AnalyticBeam.__init__ raises ValueError('type not recognized') for a
\* type that is not supported, and for nothing else.
AnalyticBeam_init_raises(cls, type, sigma, diameter) == type \notin supported_types(cls)

\* The object AnalyticBeam.__init__ makes.  sigma and diameter are None or
\* a 1-tuple holding the number; the class of uvsim.py has no diameter.
AnalyticBeam(cls, type, sigma, diameter) ==
    [cls |-> cls, type |-> type, sigma |-> sigma, diameter |-> diameter]

\* Beams: uvsim.AnalyticBeam(type, sigma).
TophatBeam == AnalyticBeam("uvsim", "tophat", None, None)
GaussianBeam == AnalyticBeam("uvsim", "gaussian", <<1>>, None)
GaussianNoSigma == AnalyticBeam("uvsim", "gaussian", None, None)

\* (beam_list, beam_dict) pairs; a beam_dict maps antenna name to beam id.
BeamConfigs ==
    {[beam_list |-> <<TophatBeam>>, beam_dict |-> None],
     [beam_list |-> <<GaussianBeam>>, beam_dict |-> None],
     [beam_list |-> <<GaussianNoSigma>>, beam_dict |-> None],
     [beam_list |-> <<TophatBeam, GaussianBeam>>, beam_dict |-> None],
     [beam_list |-> <<TophatBeam, GaussianBeam>>, beam_dict |-> <<0, 1, 0, 1>>],
     [beam_list |-> <<TophatBeam, GaussianNoSigma>>, beam_dict |-> <<0, 1, 0, 1>>]}

\* ------------------------------------------------------- the task builder
\* An antenna loop that gives every antenna beam 0, beam_dict or not.
AntennaBeamZero(num, beam_dict) ==
    [name |-> num,
     number |-> num,
     pos_enu |-> <<5 * num, 0, 0>>,
     beam_id |-> 0]

\* Antenna(name, number, enu_position, beam_id) of uvdata_to_task_list.
Antenna(num, beam_dict) ==
    [name |-> num,
     number |-> num,
     pos_enu |-> <<5 * num, 0, 0>>,
     beam_id |-> IF beam_dict = None THEN 0 ELSE beam_dict[num + 1]]

\* Baseline(antenna1, antenna2): enu = antenna2.pos_enu - antenna1.pos_enu.
Baseline(antenna1, antenna2) ==
    [antenna1 |-> antenna1,
     antenna2 |-> antenna2,
     uvw |-> [i \in 1..3 |-> antenna2.pos_enu[i] - antenna1.pos_enu[i]]]

\* Telescope(telescope_name, telescope_location, beam_list).
Telescope(beam_list) == [telescope_name |-> "tel", beam_list |-> beam_list]

\* UVTask.__init__ followed by task.uvdata_index = (blti, 0, fi).
UVTask(source, time, freq, baseline, telescope, blti, fi) ==
    [source |-> source,
     time |-> time,
     freq |-> freq,
     baseline |-> baseline,
     telescope |-> telescope,
     visibility_vector |-> None,
     uvdata_index |-> <<blti, 0, fi>>]

\* Antenna.__eq__: name, position (np.allclose on whole metres) and beam id.
Antenna_eq(a, b) == a.name = b.name /\ a.pos_enu = b.pos_enu /\ a.beam_id = b.beam_id
\* Antenna.__gt__, __ge__: by number.
Antenna_gt(a, b) == a.number > b.number
Antenna_ge(a, b) == a.number >= b.number

\* Baseline.__eq__: both antennas and the separation (enu is uvw).
Baseline_eq(a, b) ==
    /\ Antenna_eq(a.antenna1, b.antenna1)
    /\ Antenna_eq(a.antenna2, b.antenna2)
    /\ a.uvw = b.uvw

\* Baseline.__gt__, __ge__: antenna1 first, antenna2 when antenna1 is equal.
Baseline_gt(a, b) ==
    IF Antenna_eq(a.antenna1, b.antenna1)
    THEN Antenna_gt(a.antenna2, b.antenna2)
    ELSE Antenna_gt(a.antenna1, b.antenna1)

Baseline_ge(a, b) ==
    IF Antenna_eq(a.antenna1, b.antenna1)
    THEN Antenna_ge(a.antenna2, b.antenna2)
    ELSE Antenna_ge(a.antenna1, b.antenna1)

\* UVTask.__gt__: the baseline first; for equal baselines the frequency
\* index, then the baseline-time index of uvdata_index.
UVTask_gt(a, b) ==
    LET blti0 == a.uvdata_index[1]
        fi0 == a.uvdata_index[3]
        blti1 == b.uvdata_index[1]
        fi1 == b.uvdata_index[3]
    IN  IF Baseline_eq(a.baseline, b.baseline)
        THEN IF fi0 = fi1 THEN blti0 > blti1 ELSE fi0 > fi1
        ELSE Baseline_gt(a.baseline, b.baseline)

\* A __ge__ that forgets the frequency index.
UVTask_ge_nofreq(a, b) ==
    IF Baseline_eq(a.baseline, b.baseline)
    THEN a.uvdata_index[1] >= b.uvdata_index[1]
    ELSE Baseline_ge(a.baseline, b.baseline)

\* UVTask.__ge__.
UVTask_ge(a, b) ==
    LET blti0 == a.uvdata_index[1]
        fi0 == a.uvdata_index[3]
        blti1 == b.uvdata_index[1]
        fi1 == b.uvdata_index[3]
    IN  IF Baseline_eq(a.baseline, b.baseline)
        THEN IF fi0 = fi1 THEN blti0 >= blti1 ELSE fi0 >= fi1
        ELSE Baseline_ge(a.baseline, b.baseline)

\* UVTask.__lt__ and __le__.
UVTask_lt(a, b) == ~UVTask_ge(a, b)
UVTask_le(a, b) == ~UVTask_gt(a, b)

\* np.meshgrid(blts_index, frequency_index, source_index) has shape
\* (Nfreqs, Nblts, Nsrcs); ravelled, entry n (from 0) has these indices.
MeshFreqInd(n, nblts, nsrcs) == n \div (nblts * nsrcs)
\* A ravel that takes the baseline-time index for the fastest one.
MeshBltsIndFastest(n, nblts, nsrcs) == n % nblts
MeshBltsInd(n, nblts, nsrcs) == (n \div nsrcs) % nblts
MeshSourceInd(n, nblts, nsrcs) == n % nsrcs

\* uvdata_to_task_list: the task list of a geometry and a catalog.
uvdata_to_task_list(uv, sources, beam_list, beam_dict) ==
    LET nsrcs == Len(sources)
        ntasks == uv.Nblts * uv.Nfreqs * nsrcs
        bl(b) == Baseline(Antenna(uv.ant_1_array[b + 1], beam_dict),
                          Antenna(uv.ant_2_array[b + 1], beam_dict))
    IN  [k \in 1..ntasks |->
            LET blti == MeshBltsInd(k - 1, uv.Nblts, nsrcs)
                fi == MeshFreqInd(k - 1, uv.Nblts, nsrcs)
                si == MeshSourceInd(k - 1, uv.Nblts, nsrcs)
            IN  UVTask(sources[si + 1], uv.time_array[blti + 1],
                       uv.freq_array[fi + 1], bl(blti), Telescope(beam_list),
                       blti, fi)]

\* ------------------------------------------------- the per-task physics
\* The sky of the runs: the telescope is on the equator and the unit of
\* time is a third of a sidereal day, 120 degrees of hour angle.  A source
\* of declination 0 is at the zenith when it transits (the azimuth, which
\* is arbitrary there, is 0), 120 degrees from it in the west (azimuth 270)
\* one unit later and in the east (azimuth 90) two units later.
TransitAzZa(transit, time) ==
    CASE (time - transit) % 3 = 0 -> <<0, 0>>
      [] (time - transit) % 3 = 1 -> <<270, 120>>
      [] (time - transit) % 3 = 2 -> <<90, 120>>

\* Source.az_za_calc: (azimuth, zenith angle) of the source at a time.
az_za_calc(source, time) ==
    IF source.ra = None
    THEN <<Azimuth(source.name, time), ZenithAngle(source.name, time)>>
    ELSE TransitAzZa(source.ra[1], time)

\* sin and cos on the angles of the model's sky.
SinDeg(d) == CASE d = 0 -> 0 [] d = 90 -> 1 [] d = 270 -> -1
CosDeg(d) == CASE d = 0 -> 1 [] d = 90 -> 0 [] d = 270 -> 0

\* A pos_lmn that gives a null triple, not None, below the horizon.
pos_lmn_zero_triple(cached_az_za, source, time) ==
    LET az_za == IF cached_az_za = None THEN az_za_calc(source, time) ELSE cached_az_za
    IN  IF az_za[2] > HorizonZa
        THEN <<0, 0, 0>>
        ELSE <<SinDeg(az_za[1]) * SinDeg(az_za[2]),
               CosDeg(az_za[1]) * SinDeg(az_za[2]),
               CosDeg(az_za[2])>>

\* Source.pos_lmn with the cached az_za it finds on the source: the cache
\* is filled only when it is None; the horizon mask is np.pi / 2.
pos_lmn(cached_az_za, source, time) ==
    LET az_za == IF cached_az_za = None THEN az_za_calc(source, time) ELSE cached_az_za
    IN  IF az_za[2] > HorizonZa
        THEN None
        ELSE <<SinDeg(az_za[1]) * SinDeg(az_za[2]),
               CosDeg(az_za[1]) * SinDeg(az_za[2]),
               CosDeg(az_za[2])>>

\* sin of the hour angle of the polarized source "p": 0 at time 1, 1 later.
SinHourAngle(source, time) == IF time = 1 THEN 0 ELSE 1
\* tan(lat) cos(dec) - sin(dec) cos(hour angle), at latitude and declination 0.
CosParallactic(source, time) == 0

\* The rotation matrix of coherency_calc: the identity when Q, U and V are
\* all zero, [[cosX, sinX], [-sinX, cosX]] otherwise.
rotation_matrix(source, time) ==
    LET Abs(x) == IF x < 0 THEN -x ELSE x
    IN  IF Abs(source.stokes[2]) + Abs(source.stokes[3]) + Abs(source.stokes[4]) = 0
        THEN <<<<1, 0>>, <<0, 1>>>>
        ELSE LET sinX == SinHourAngle(source, time)
                 cosX == CosParallactic(source, time)
             IN  <<<<cosX, sinX>>, <<-sinX, cosX>>>>

\* Source.coherency_calc: the local coherency R^T . coherency_radec . R.
coherency_calc(source, time) ==
    MatMul(MatMul(Transpose(rotation_matrix(source, time)), source.coherency_radec),
           rotation_matrix(source, time))

\* uvsim.AnalyticBeam.interp raises ValueError for a gaussian beam without
\* sigma.
InterpRaises_uvsim(beam) == beam.type = "gaussian" /\ beam.sigma = None

\* analyticbeam.AnalyticBeam.interp raises ValueError for a gaussian beam
\* with neither diameter nor sigma and for an airy beam without diameter.
InterpRaises_analyticbeam(beam) ==
    \/ (beam.type = "gaussian" /\ beam.diameter = None /\ beam.sigma = None)
    \/ (beam.type = "airy" /\ beam.diameter = None)

\* beam.interp(...) raises: the interp of the beam's own class.
InterpRaises(beam) ==
    IF beam.cls = "uvsim" THEN InterpRaises_uvsim(beam) ELSE InterpRaises_analyticbeam(beam)

\* The float nan, as a number that no response takes.
NotANumber == -999999

\* exp(-za^2 / (2 sigma^2)) for za in degrees and sigma in 1 / Unity
\* radians, to the nearest 1 / Unity: nan for a sigma that is nan, 1 at the
\* zenith, 0.29121 and 0.11155 at 90 and 120 degrees for a sigma of one
\* radian, and below 0.00005 from 90 degrees on for a sigma of at most
\* 0.35 radians.
GaussianValue(za, sigma) ==
    IF sigma = NotANumber THEN NotANumber
    ELSE IF za = 0 THEN Unity
    ELSE CASE sigma = Unity /\ za = 90 -> 2912
           [] sigma = Unity /\ za = 120 -> 1116
           [] sigma <= 3500 /\ za >= 90 -> 0

\* uvsim.AnalyticBeam.interp on a beam that has its shape parameter: the
\* response, the same in all four entries.
interp(beam, za) ==
    IF beam.type = "tophat" THEN Unity
    ELSE GaussianValue(za, beam.sigma[1] * Unity)

\* analyticbeam.diameter_to_sigma for a dish of diam metres at one
\* frequency in Hz, in 1 / Unity radians:
\* arcsin(2.2150894 c / (freq pi diam)) * 2 / 2.355, which is nan when the
\* argument of arcsin is above 1, that is when
\* diam * freq < 2.2150894 * 299792458 / pi = 211379121.7.
diameter_to_sigma(diam, freq) ==
    IF diam * freq <= 211379121 THEN NotANumber
    ELSE CASE diam = 14 /\ freq = 100000000 -> 1287
           [] diam = 20 /\ freq = 100000000 -> 899

\* xvals of the airy beam, diameter / 2 * sin(za) * 2 pi f / 3e8, in units
\* of pi / 3e8: zero exactly when diameter, sin(za) or f is zero.
airy_xvals(diameter, za, freq) == diameter * SinDeg(za) * freq

\* 2 j1(x) / x for x in units of pi / 3e8, to the nearest 1 / Unity:
\* 0 / 0 = nan at x = 0, within 0.00005 of 1 up to x = 0.0199, and
\* 0.86904, 0.02766 and 0.01616 at x = 1.0472, 14.6608 and 20.9440.
TwoJ1OverX(x) ==
    CASE x = 0 -> NotANumber
      [] x # 0 /\ x <= 1900000 /\ -x <= 1900000 -> Unity
      [] x = 100000000 -> 8690
      [] x = 1400000000 -> 277
      [] x = 2000000000 -> 162

\* Airy values without the separate treatment of xvals = 0.
airy_values_no_limit(xvals) == TwoJ1OverX(xvals)

\* values of the airy beam: 2 j1(x) / x where xvals is not zero and 1,
\* the limit, where it is zero.
airy_values(xvals) == IF xvals # 0 THEN TwoJ1OverX(xvals) ELSE Unity

\* analyticbeam.AnalyticBeam.interp on a beam that has its shape parameter:
\* the response, the same in all four entries.  A gaussian beam takes its
\* sigma from the diameter when it has one, from sigma otherwise.
interp_analyticbeam(beam, za, freq) ==
    IF beam.type = "uniform" THEN Unity
    ELSE IF beam.type = "gaussian"
    THEN GaussianValue(za, IF beam.diameter # None
                           THEN diameter_to_sigma(beam.diameter[1], freq)
                           ELSE beam.sigma[1] * Unity)
    ELSE airy_values(airy_xvals(beam.diameter[1], za, freq))

\* Antenna.get_beam_jones: the 2x2 Jones matrix of the antenna's beam.
get_beam_jones(antenna, telescope, source_az_za) ==
    LET v == interp(telescope.beam_list[antenna.beam_id + 1], source_az_za[2])
    IN  <<<<v, v>>, <<v, v>>>>

\* get_beam_jones raises what interp raises.
BeamJonesRaises(antenna, telescope) == InterpRaises(telescope.beam_list[antenna.beam_id + 1])

\* UVEngine.apply_beam: beam1_jones . coherency . beam2_jones^H.
apply_beam(task) ==
    LET az_za == az_za_calc(task.source, task.time)
        beam1_jones == get_beam_jones(task.baseline.antenna1, task.telescope, az_za)
        beam2_jones == get_beam_jones(task.baseline.antenna2, task.telescope, az_za)
    IN  MatMul(MatMul(beam1_jones, coherency_calc(task.source, task.time)),
               Transpose(beam2_jones))

\* exp(2j pi dot(uvw_wavelength, pos_lmn)), with uvw in metres and freq in
\* Hz, to the nearest 1 / Unity: 1 where the dot product is 0, the phase of
\* a zenith source over level ground, and 1 as well while the phase
\* 2 pi dot freq / c stays below 1 / (2 Unity), that is while
\* |dot| freq <= 2385 m Hz; a source on the horizon along a baseline of 5 m
\* at 100 Hz has the phase 1.05e-5.
Fringe(uvw, lmn, freq) ==
    LET dot == uvw[1] * lmn[1] + uvw[2] * lmn[2] + uvw[3] * lmn[3]
    IN  CASE dot = 0 -> 1
          [] dot # 0 /\ dot * freq <= 2385 /\ -(dot * freq) <= 2385 -> 1

\* UVEngine.make_visibility raises when apply_beam does.
MakeVisibilityRaises(task) ==
    \/ BeamJonesRaises(task.baseline.antenna1, task.telescope)
    \/ BeamJonesRaises(task.baseline.antenna2, task.telescope)

\* UVEngine.make_visibility: [xx, yy, xy, yx].  apply_beam has left the
\* task's own az_za on the source when pos_lmn reads it.
make_visibility(task) ==
    LET apparent_coherency == apply_beam(task)
        lmn == pos_lmn(az_za_calc(task.source, task.time), task.source, task.time)
    IN  IF lmn = None
        THEN Zero4
        ELSE LET vij == MatScale(apparent_coherency, Fringe(task.baseline.uvw, lmn, task.freq))
             IN  <<vij[1][1], vij[2][2], vij[1][2], vij[2][1]>>

\* UVEngine.update_task: the visibility is stored on the task.
update_task(task) == [task EXCEPT !.visibility_vector = make_visibility(task)]

\* An apply_beam that fills az_za only on a Source that holds none.
az_za_after_apply_beam_kept(cached_az_za, task) ==
    IF cached_az_za = None THEN az_za_calc(task.source, task.time) ELSE cached_az_za

\* The az_za a Source holds after apply_beam: az_za_calc has set it for the
\* task's time, whatever the Source held before.
az_za_after_apply_beam(cached_az_za, task) == az_za_calc(task.source, task.time)

\* UVEngine.make_visibility on a task whose Source holds cached_az_za from
\* the tasks computed before.
make_visibility_cached(cached_az_za, task) ==
    LET apparent_coherency == apply_beam(task)
        lmn == pos_lmn(az_za_after_apply_beam(cached_az_za, task), task.source, task.time)
    IN  IF lmn = None
        THEN Zero4
        ELSE LET vij == MatScale(apparent_coherency, Fringe(task.baseline.uvw, lmn, task.freq))
             IN  <<vij[1][1], vij[2][2], vij[1][2], vij[2][1]>>

\* The interpolation_function of the beams of a telescope after apply_beam
\* on a task: get_beam_jones sets it on the beam of antenna 1 and, if that
\* beam's interp did not raise, on the beam of antenna 2.
interp_after_apply_beam(interp_fns, task) ==
    LET b1 == task.baseline.antenna1.beam_id + 1
        b2 == task.baseline.antenna2.beam_id + 1
        after1 == [interp_fns EXCEPT ![b1] = <<"az_za_simple">>]
    IN  IF BeamJonesRaises(task.baseline.antenna1, task.telescope)
        THEN after1
        ELSE [after1 EXCEPT ![b2] = <<"az_za_simple">>]

\* ------------------------------------------- partition, reduce and merge
\* np.array_split(uvtask_list, Npus): section i (from 1) of n sections; the
\* first len % n sections hold one task more than the others.
\* A split into equal sections that forgets the len % n extra tasks.
DivPointNoExtras(len, n, i) == i * (len \div n)

DivPoint(len, n, i) ==
    LET Neach_section == len \div n
        extras == len % n
    IN  i * Neach_section + (IF i < extras THEN i ELSE extras)

array_split(list, n) ==
    [i \in 1..n |-> SubSeq(list, DivPoint(Len(list), n, i - 1) + 1, DivPoint(Len(list), n, i))]

\* The first statement of the loop's body: a task whose index the table
\* does not have is filed under it.
FileTask(d, task) ==
    IF task.uvdata_index \notin DOMAIN d THEN (task.uvdata_index :> task) @@ d ELSE d

\* A loop body that assigns the visibility where it should add it.
ReduceStepOverwrite(d, task, vis) ==
    LET idx == task.uvdata_index
        d1 == IF idx \notin DOMAIN d THEN (idx :> task) @@ d ELSE d
    IN  [d1 EXCEPT ![idx].visibility_vector = vis]

\* A loop body that files the first task of a bin without its visibility.
ReduceStepFirstZero(d, task, vis) ==
    LET idx == task.uvdata_index
    IN  IF idx \notin DOMAIN d
        THEN (idx :> [task EXCEPT !.visibility_vector = Zero4]) @@ d
        ELSE [d EXCEPT ![idx].visibility_vector = VecAdd(@, vis)]

\* One pass of the compute loop's body on the table summed_task_dict.
ReduceStep(d, task, vis) ==
    LET idx == task.uvdata_index
        d1 == IF idx \notin DOMAIN d THEN (idx :> task) @@ d ELSE d
    IN  IF d1[idx].visibility_vector = None
        THEN [d1 EXCEPT ![idx].visibility_vector = vis]
        ELSE [d1 EXCEPT ![idx].visibility_vector = VecAdd(@, vis)]

RECURSIVE LocalReduce(_, _)
\* The table after the compute loop has run over the first n tasks.
LocalReduce(local_task_list, n) ==
    IF n = 0 THEN <<>>
    ELSE ReduceStep(LocalReduce(local_task_list, n - 1), local_task_list[n],
                    make_visibility(local_task_list[n]))

\* The orders in which a dictionary can list its keys: the order is that
\* of the hash table, which the program does not fix.
KeyOrders(d) ==
    {order \in [1..Cardinality(DOMAIN d) -> DOMAIN d] :
        \A i, j \in DOMAIN order : i # j => order[i] # order[j]}

\* summed_task_dict.values() when the keys are listed in the given order.
DictValuesIn(d, order) == [i \in DOMAIN order |-> d[order[i]]]

\* The lists summed_task_dict.values() can be.
DictValues(d) == {DictValuesIn(d, order) : order \in KeyOrders(d)}

\* The table and the list of a rank hold the same task objects: the task
\* filed in the table under its index is the first task of the list with
\* that index, and what the loop stores on the entry shows in the list.
AliasTable(list, d) ==
    [k \in DOMAIN list |->
        IF /\ list[k].uvdata_index \in DOMAIN d
           /\ \A j \in 1..k - 1 : list[j].uvdata_index # list[k].uvdata_index
        THEN [list[k] EXCEPT !.visibility_vector = d[list[k].uvdata_index].visibility_vector]
        ELSE list[k]]

RECURSIVE serial_gather_assign(_, _)
\* A serial_gather that assigns (=) where it should add (+=).
serial_gather_assign(uvtask_list, data_array) ==
    IF uvtask_list = <<>> THEN data_array
    ELSE serial_gather_assign(Tail(uvtask_list),
            [data_array EXCEPT ![Head(uvtask_list).uvdata_index] =
                Head(uvtask_list).visibility_vector])

RECURSIVE serial_gather(_, _)
\* serial_gather: data_array[uvdata_index] += visibility_vector per task.
serial_gather(uvtask_list, data_array) ==
    IF uvtask_list = <<>> THEN data_array
    ELSE serial_gather(Tail(uvtask_list),
            [data_array EXCEPT ![Head(uvtask_list).uvdata_index] =
                VecAdd(@, Head(uvtask_list).visibility_vector)])

\* initialize_uvdata: the shape of the container is read back from the
\* tasks of the first source; data_array is np.zeros of that shape.
initialize_uvdata(uvtask_list) ==
    LET source_0 == uvtask_list[1].source
        freq_0 == uvtask_list[1].freq
        of_src == {k \in 1..Len(uvtask_list) : uvtask_list[k].source = source_0}
        Nfreqs == Cardinality({uvtask_list[k].freq : k \in of_src})
        Nblts == Cardinality({k \in of_src : uvtask_list[k].freq = freq_0})
    IN  [i \in {<<b, 0, f>> : b \in 0..Nblts - 1, f \in 0..Nfreqs - 1} |-> Zero4]

\* ------------------------------------------------------- the catalogs
\* uvsim.create_mock_catalog(time, **mock_keywords) for the keywords
\* arrangement, Nsrcs and zen_ang: KeyError for an arrangement it does not
\* know; 'off-zenith' is one source of 1 Jy, zen_ang (5 by default)
\* degrees east of the zenith of the time; 'zenith' is Nsrcs (1 by
\* default) sources of 1 / Nsrcs Jy at the zenith of the time.  The sources
\* are src0, src1, ...  A source placed zen_ang degrees from the zenith in
\* the east transits zen_ang / 120 units of time later, on the sky of the
\* runs.
uvsim_create_mock_catalog(time, mock_keywords) ==
    LET arrangement == IF mock_keywords.arrangement = Absent THEN "zenith"
                       ELSE mock_keywords.arrangement[1]
        zen_ang == IF mock_keywords.zen_ang = Absent THEN 5 ELSE mock_keywords.zen_ang[1]
        Nsrcs == IF mock_keywords.Nsrcs = Absent THEN 1 ELSE mock_keywords.Nsrcs[1]
        TransitLag == CASE zen_ang % 120 = 0 -> zen_ang \div 120
    IN  IF arrangement \notin {"off-zenith", "zenith", "cross", "triangle", "long-line", "hera_text"}
        THEN [raised |-> "KeyError", catalog |-> <<>>]
        ELSE CASE arrangement = "off-zenith" ->
                    [raised |-> "",
                     catalog |-> <<Source("src0", <<(time + TransitLag) % 3>>,
                                          <<FluxUnit, 0, 0, 0>>)>>]
               [] arrangement = "zenith" ->
                    [raised |-> "",
                     catalog |-> [si \in 1..Nsrcs |->
                                     Source("src" \o ToString(si - 1), <<time % 3>>,
                                            <<FluxUnit \div Nsrcs, 0, 0, 0>>)]]

\* s.endswith(suffix) on strings that are tuples of characters.
endswith(str, suffix) ==
    Len(suffix) <= Len(str) /\ SubSeq(str, Len(str) - Len(suffix) + 1, Len(str)) = suffix

\* run_uvsim, the catalog of a call: the mock catalog for a catalog_file
\* that is None or 'mock', at mock_keywords['time'] or else at
\* input_uv.time_array[0]; for a file name that ends in 'txt' or 'vot' the
\* readers point_sources_from_params and read_gleam_catalog, which simsetup
\* does not have (AttributeError); any other name leaves catalog unbound.
run_uvsim_catalog(input_uv, catalog_file, mock_keywords) ==
    IF catalog_file = None \/ catalog_file = <<"m", "o", "c", "k">>
    THEN uvsim_create_mock_catalog(IF mock_keywords.time = Absent THEN input_uv.time_array[1]
                                   ELSE mock_keywords.time[1],
                                   mock_keywords)
    ELSE IF endswith(catalog_file, <<"t", "x", "t">>)
    THEN [raised |-> "AttributeError", catalog |-> <<>>]
    ELSE IF endswith(catalog_file, <<"v", "o", "t">>)
    THEN [raised |-> "AttributeError", catalog |-> <<>>]
    ELSE [raised |-> "UnboundLocalError", catalog |-> <<>>]

\* tan(latitude) * tan(dec) of a source: at least 1 for the circumpolar
\* "a", below -1 for "d", which never rises, and 0 for the sources that
\* rise and set.
tans(name) ==
    CASE name = "a" -> 2 [] name = "d" -> -2 [] OTHER -> 0

RECURSIVE source_cuts(_)
\* simsetup.source_cuts with the coarse horizon cut: the sources with
\* tans < -1 are taken out, the others stay in their order.
source_cuts(catalog) ==
    IF catalog = <<>> THEN <<>>
    ELSE (IF tans(Head(catalog)) < -1 THEN <<>> ELSE <<Head(catalog)>>)
         \o source_cuts(Tail(catalog))

\* simsetup.create_mock_catalog, arrangement 'zenith': Nsrcs sources named
\* src0, src1, ... at the zenith of the given time; the time, which fixes
\* their right ascension, is kept in the entry after the name.
create_mock_catalog(time, Nsrcs) ==
    [si \in 1..Nsrcs |-> "src" \o ToString(si - 1) \o "@" \o ToString(time)]

\* A default that takes the last time of input_uv.
DefaultMockTimeLast(uv) == uv.time_array[uv.Nblts]

\* The time of a mock catalog when the parameters give none:
\* input_uv.time_array[0].
DefaultMockTime(uv) == uv.time_array[1]

\* simsetup.initialize_catalog_from_params for a 'sources' section that
\* asks for the mock catalog of the zenith arrangement, or has no 'catalog'
\* key.  source_params: has_catalog, has_time, time, Nsrcs; input_uv: given
\* or not, a UVData or not, and the geometry uv when it is one.
initialize_catalog_from_params(source_params, input_uv) ==
    IF input_uv.given /\ ~input_uv.is_uvdata
    THEN [raised |-> "TypeError", catalog |-> None]
    ELSE IF ~source_params.has_catalog
    THEN [raised |-> "KeyError", catalog |-> None]
    ELSE IF ~source_params.has_time /\ ~input_uv.given
    THEN [raised |-> "ValueError", catalog |-> None]
    ELSE LET time == IF source_params.has_time THEN source_params.time
                     ELSE DefaultMockTime(input_uv.uv)
         IN  [raised |-> "",
              catalog |-> source_cuts(create_mock_catalog(time, source_params.Nsrcs))]

\* ------------------------------------------- the configuration loopback
\* The numbers of this section are exact fractions <<n, d>> with d > 0 and
\* n, d coprime: times in seconds and frequencies in hertz.  The conversion
\* between days and seconds is a change of unit and is left out.  A
\* parameter dictionary is a record of its possible keys: <<v>> for a key
\* that holds v, Absent for a key it does not have.
RECURSIVE GCD(_, _)
GCD(a, b) == IF b = 0 THEN a ELSE GCD(b, a % b)

\* The fraction n / d in lowest terms, d # 0.
Frac(n, d) ==
    LET an == IF n < 0 THEN -n ELSE n
        ad == IF d < 0 THEN -d ELSE d
        g == GCD(an, ad)
        sign == IF (n < 0) # (d < 0) THEN -1 ELSE 1
    IN  <<sign * (an \div g), ad \div g>>

Whole(i) == <<i, 1>>
FracAdd(x, y) ==
    LET g == GCD(x[2], y[2])
    IN  Frac(x[1] * (y[2] \div g) + y[1] * (x[2] \div g), (x[2] \div g) * y[2])
FracSub(x, y) == FracAdd(x, <<-y[1], y[2]>>)
FracMul(x, y) == Frac(x[1] * y[1], x[2] * y[2])
FracAbs(x) == IF x[1] < 0 THEN <<-x[1], x[2]>> ELSE x
FracLeq(x, y) == x[1] * y[2] <= y[1] * x[2]

\* np.diff
Diff(arr) == [i \in 1..Len(arr) - 1 |-> FracSub(arr[i + 1], arr[i])]

\* np.min of a non-empty array
ArrayMin(arr) ==
    CHOOSE x \in {arr[i] : i \in DOMAIN arr} : \A i \in DOMAIN arr : FracLeq(x, arr[i])

\* np.repeat(arr, n): every element n times, in place
Repeat(arr, n) == [i \in 1..Len(arr) * n |-> arr[((i - 1) \div n) + 1]]

\* np.linspace(start, stop, num, endpoint=False):
\* start + k (stop - start) / num for k = 0, ..., num - 1.
Linspace(start, stop, num) ==
    [k \in 1..num |-> FracAdd(start, FracMul(Frac(k - 1, num), FracSub(stop, start)))]

\* np.allclose(a, b) on two numbers: |a - b| <= atol + rtol |b| with
\* rtol = 1e-5; the default atol of 1e-8 is below every nonzero difference
\* of two fractions of this section and is left out.
AllClose(a, b) == FracLeq(FracMul(Whole(100000), FracAbs(FracSub(a, b))), FracAbs(b))

\* np.allclose(a, b, atol=atol) for an atol that is given.
AllCloseAtol(a, b, atol) ==
    FracLeq(FracAbs(FracSub(a, b)), FracAdd(atol, FracMul(Frac(1, 100000), FracAbs(b))))

\* simsetup.freq_array_to_params
freq_array_to_params(freq_array) ==
    IF Len(freq_array) < 2
    THEN [freq_array |-> Absent, channel_width |-> <<Whole(1)>>, Nfreqs |-> <<1>>,
          bandwidth |-> Absent, start_freq |-> <<freq_array[1]>>, end_freq |-> Absent]
    ELSE [freq_array |-> Absent, channel_width |-> <<Diff(freq_array)[1]>>,
          Nfreqs |-> <<Len(freq_array)>>,
          bandwidth |-> <<FracMul(Diff(freq_array)[1], Whole(Len(freq_array)))>>,
          start_freq |-> <<freq_array[1]>>,
          end_freq |-> <<freq_array[Len(freq_array)]>>]

\* simsetup.parse_frequency_params on a dictionary that has no
\* 'freq_array' and has 'Nfreqs' and 'channel_width', as every dictionary
\* of freq_array_to_params does.
parse_frequency_params(freq_params) ==
    IF freq_params.start_freq = Absent /\ freq_params.end_freq = Absent
    THEN [raised |-> "ValueError", freq_array |-> <<>>, Nfreqs |-> 0,
          channel_width |-> Whole(0)]
    ELSE LET Nfreqs == freq_params.Nfreqs[1]
             channel_width == freq_params.channel_width[1]
             bandwidth == IF freq_params.bandwidth # Absent THEN freq_params.bandwidth[1]
                          ELSE FracMul(channel_width, Whole(Nfreqs))
             start_freq == IF freq_params.start_freq # Absent THEN freq_params.start_freq[1]
                           ELSE FracAdd(FracSub(freq_params.end_freq[1], bandwidth),
                                        channel_width)
             end_freq == IF freq_params.end_freq # Absent THEN freq_params.end_freq[1]
                         ELSE FracSub(FracAdd(start_freq, bandwidth), channel_width)
             freq_arr == Linspace(start_freq, FracAdd(end_freq, channel_width), Nfreqs)
         IN  IF Nfreqs # 1 /\ \E i \in 1..Nfreqs - 1 : ~AllClose(Diff(freq_arr)[i], channel_width)
             THEN [raised |-> "ValueError", freq_array |-> <<>>, Nfreqs |-> 0,
                   channel_width |-> Whole(0)]
             ELSE [raised |-> "", freq_array |-> freq_arr, Nfreqs |-> Nfreqs,
                   channel_width |-> channel_width]

\* simsetup.time_array_to_params: the number of times is that of the
\* distinct times, dt is the first step of the distinct times, and the
\* integration time is the smallest step of the array as it is given.  The
\* spacings are compared with an atol of 1e-8 days, 0.000864 seconds.
time_array_to_params(time_array) ==
    LET uniq == {time_array[i] : i \in DOMAIN time_array}
        Ntimes_uniq == Cardinality(uniq)
        first == CHOOSE x \in uniq : \A y \in uniq : FracLeq(x, y)
        second == CHOOSE x \in uniq \ {first} : \A y \in uniq \ {first} : FracLeq(x, y)
        dt == FracSub(second, first)
        integration_time == ArrayMin(Diff(time_array))
    IN  IF Ntimes_uniq < 2
        THEN [time_array |-> Absent, integration_time |-> <<Whole(1)>>, Ntimes |-> <<1>>,
              duration_days |-> Absent, start_time |-> <<time_array[1]>>,
              end_time |-> Absent]
        ELSE [time_array |-> IF \E i \in 1..Len(time_array) - 1 :
                                    ~AllCloseAtol(Diff(time_array)[i], dt, Frac(864, 1000000))
                             THEN <<time_array>> ELSE Absent,
              integration_time |-> <<integration_time>>,
              Ntimes |-> <<Ntimes_uniq>>,
              duration_days |-> <<FracMul(integration_time, Whole(Ntimes_uniq))>>,
              start_time |-> <<time_array[1]>>,
              end_time |-> <<time_array[Len(time_array)]>>]

\* simsetup.parse_time_params on a dictionary of time_array_to_params: a
\* 'time_array' supersedes the other keys, its length is Ntimes and no
\* integration time is returned; otherwise 'Ntimes' and 'integration_time'
\* are there, the array is laid out from the start time, its steps are
\* compared with the integration time to the nearest second, and the
\* integration time is returned once per time.
parse_time_params(time_params) ==
    IF time_params.time_array # Absent
    THEN [raised |-> "", time_array |-> time_params.time_array[1],
          Ntimes |-> Len(time_params.time_array[1]),
          start_time |-> ArrayMin(time_params.time_array[1]),
          integration_time |-> Absent]
    ELSE IF time_params.start_time = Absent /\ time_params.end_time = Absent
    THEN [raised |-> "ValueError", time_array |-> <<>>, Ntimes |-> 0,
          start_time |-> Whole(0), integration_time |-> Absent]
    ELSE LET Ntimes == time_params.Ntimes[1]
             inttime == time_params.integration_time[1]
             duration == IF time_params.duration_days # Absent
                         THEN time_params.duration_days[1]
                         ELSE FracMul(inttime, Whole(Ntimes))
             start_time == IF time_params.start_time # Absent THEN time_params.start_time[1]
                           ELSE FracAdd(FracSub(time_params.end_time[1], duration), inttime)
             end_time == IF time_params.end_time # Absent THEN time_params.end_time[1]
                         ELSE FracSub(FracAdd(start_time, duration), inttime)
             time_arr == Linspace(start_time, FracAdd(end_time, inttime), Ntimes)
         IN  IF Ntimes # 1 /\ \E i \in 1..Ntimes - 1 :
                                 ~AllCloseAtol(Diff(time_arr)[i], inttime, Whole(1))
             THEN [raised |-> "ValueError", time_array |-> <<>>, Ntimes |-> 0,
                   start_time |-> Whole(0), integration_time |-> Absent]
             ELSE [raised |-> "", time_array |-> time_arr, Ntimes |-> Ntimes,
                   start_time |-> start_time,
                   integration_time |-> <<[i \in 1..Ntimes |-> inttime]>>]

\* simsetup.parse_telescope_params for a telescope file and a layout csv
\* file of Nants antennas, as uvdata_to_telescope_config writes them: what
\* it raises.  _parse_layout_csv returns the array of np.genfromtxt, which
\* has no dimension for a file of one row; the beam loop indexes the names
\* with np.where of the beam ids, one index too many for that array:
\* IndexError (ValueError, from np.where itself, with numpy 2.1 or later).
parse_telescope_params(Nants) == IF Nants = 1 THEN "IndexError" ELSE ""

\* simsetup.initialize_uvdata_from_params, the time and frequency axes of
\* the geometry it builds for the Nants antennas of a layout file: one
\* baseline for every pair of antennas, an antenna with itself included,
\* and every entry of the parsed time array repeated once per baseline.
\* integration_time is the parsed one, or the None a UVData starts with
\* when parse_time_params returned none, repeated Nbls * Ntimes times.  The
\* function parses the telescope first, then reads param_dict['param_file'],
\* KeyError for a dictionary without that key, and then parses the
\* frequencies and the times.
initialize_uvdata_from_params(param_dict, Nants) ==
    LET freq == parse_frequency_params(param_dict.freq)
        time == parse_time_params(param_dict.time)
        Nbls == (Nants * (Nants + 1)) \div 2
    IN  IF parse_telescope_params(Nants) # ""
        THEN [raised |-> parse_telescope_params(Nants), Ntimes |-> 0, Nbls |-> 0, Nblts |-> 0,
              time_array |-> <<>>, freq_array |-> <<>>, integration_time |-> <<>>]
        ELSE IF param_dict.param_file = Absent
        THEN [raised |-> "KeyError", Ntimes |-> 0, Nbls |-> 0, Nblts |-> 0,
              time_array |-> <<>>, freq_array |-> <<>>, integration_time |-> <<>>]
        ELSE IF freq.raised # ""
        THEN [raised |-> freq.raised, Ntimes |-> 0, Nbls |-> 0, Nblts |-> 0,
              time_array |-> <<>>, freq_array |-> <<>>, integration_time |-> <<>>]
        ELSE IF time.raised # ""
        THEN [raised |-> time.raised, Ntimes |-> 0, Nbls |-> 0, Nblts |-> 0,
              time_array |-> <<>>, freq_array |-> <<>>, integration_time |-> <<>>]
        ELSE [raised |-> "", Ntimes |-> time.Ntimes, Nbls |-> Nbls,
              Nblts |-> Nbls * time.Ntimes,
              time_array |-> Repeat(time.time_array, Nbls),
              freq_array |-> freq.freq_array,
              integration_time |->
                  IF time.integration_time = Absent
                  THEN [i \in 1..Nbls * time.Ntimes |-> None]
                  ELSE Repeat(time.integration_time[1], Nbls * time.Ntimes)]

\* simsetup.uvdata_to_config_file: np.max, np.min and float of
\* uvdata_in.integration_time raise TypeError when it holds None; otherwise
\* the 'time' and 'freq' sections are written.
uvdata_to_config_file(uvdata_in) ==
    IF \E i \in DOMAIN uvdata_in.integration_time : uvdata_in.integration_time[i] = None
    THEN [raised |-> "TypeError", time |-> None, freq |-> None]
    ELSE [raised |-> "",
          time |-> time_array_to_params(uvdata_in.time_array),
          freq |-> freq_array_to_params(uvdata_in.freq_array)]

\* yaml.safe_load of the file uvdata_to_config_file has written: the
\* sections of the file, and no key 'param_file'.
yaml_safe_load(written) ==
    [time |-> written.time, freq |-> written.freq, param_file |-> Absent]

\* simsetup._config_str_to_dict on the name of that file: the sections of
\* the file, and its name under 'param_file'.
config_str_to_dict(written) ==
    [time |-> written.time, freq |-> written.freq, param_file |-> <<"obsparam.yaml">>]

\* ---------------------------------------------------------- the mpi module
\* mpi4py.MPI.COMM_WORLD, as a tuple so that it compares with None.
COMM_WORLD == <<"COMM_WORLD">>

\* A hook calls Abort(1) on the world communicator after the traceback: the
\* mpi_excepthook of uvsim.py and the one set_mpi_excepthook makes do, the
\* interpreter's own hook does not.
HookAborts(hook) == hook \in {"uvsim.mpi_excepthook", "mpi_excepthook"}

\* pyuvsim.mpi after its import: rank 0, Npus 1, comm None.  world_rank is
\* the rank of this process in COMM_WORLD.  via_package: the module was
\* imported as pyuvsim.mpi, so that the package has imported uvsim.py, which
\* installs its mpi_excepthook as sys.excepthook; a module loaded from its
\* file alone leaves the interpreter's hook.  loaded: the submodule
\* mpi4py.MPI had been imported before, as uvsim.py does at its line 16;
\* the module itself imports mpi4py only, which does not import the
\* submodule.  initialized is MPI.Is_initialized(): the import of
\* mpi4py.MPI calls MPI_Init unless mpi4py.rc.initialize was set to False
\* before, and line 9 of the module comes after an earlier import.
mpi_imported(world_rank, loaded, via_package) ==
    [rank |-> 0, Npus |-> 1, comm |-> None,
     excepthook |-> IF via_package THEN "uvsim.mpi_excepthook" ELSE "sys.__excepthook__",
     loaded |-> loaded, initialized |-> loaded, world_rank |-> world_rank]

\* mpi4py.MPI.Init(): raises MPI.Exception when MPI is initialized already.
MPI_Init(initialized) == IF initialized THEN "MPI.Exception" ELSE ""

\* mpi.set_mpi_excepthook
set_mpi_excepthook(module) == [module EXCEPT !.excepthook = "mpi_excepthook"]

\* mpi.start_mpi in a world of world_size processes.  Without the
\* submodule the lookup mpi4py.MPI of line 30 raises AttributeError, and so
\* does the lookup in the except clause of line 31: the call fails and
\* assigns nothing.  With it, the MPI.Exception of MPI.Init is swallowed,
\* then comm, Npus and rank are taken from COMM_WORLD and the exception hook
\* is set.
start_mpi(module, world_size) ==
    IF ~module.loaded
    THEN [raised |-> "AttributeError", module |-> module]
    ELSE LET init == MPI_Init(module.initialized)
         IN  [raised |-> IF init = "MPI.Exception" THEN "" ELSE init,
              module |-> set_mpi_excepthook([module EXCEPT !.initialized = TRUE,
                                                           !.comm = COMM_WORLD,
                                                           !.Npus = world_size,
                                                           !.rank = module.world_rank])]

\* mpi.get_rank, mpi.get_Npus, mpi.get_comm
get_rank(module) == module.rank
get_Npus(module) == module.Npus
get_comm(module) == module.comm

\* ------------------------------------------------------------- the state
VARIABLES
    Npus,               \* comm.Get_size()
    args,               \* the arguments of run_uvsim
    pc,                 \* where each rank is in run_uvsim
    uvtask_list,        \* rank 0: the task list; after the gather, the gathered tasks
    split_list,         \* rank 0: the list of shards that the split binds to uvtask_list
    uv_container,       \* rank 0: data_array of the container of initialize_uvdata
    scatter_sent,       \* rank 0 has entered comm.scatter
    scatter_buf,        \* per rank, the shard the scatter carries to it
    local_task_list,    \* per rank, the result of comm.scatter
    summed_task_dict,   \* per rank, the local table
    count,              \* per rank, the tasks its compute loop has done
    engine_log,         \* per rank, the tasks it has made a UVEngine for
    worker_az_za,       \* per rank, az_za of its copy of each Source
    worker_interp,      \* per rank, interpolation_function of its copy of each beam
    full_tasklist,      \* rank 0: per rank, the table the gather has delivered
    delivered,          \* the ranks whose table has reached rank 0
    uvdata_out,         \* what run_uvsim returned on rank 0
    exception,          \* per rank, the uncaught exception, "" when none
    aborted,            \* MPI.COMM_WORLD.Abort has been called
    src_obj,            \* a Source object that is queried directly: its name and az_za
    beam_obj,           \* an AnalyticBeam object that is made and queried directly
    last_call,          \* the last direct call on src_obj or beam_obj and its outcome
    mpi_module          \* the globals of pyuvsim.mpi, sys.excepthook and the MPI library

vars == <<Npus, args, pc, uvtask_list, split_list, uv_container, scatter_sent, scatter_buf,
          local_task_list, summed_task_dict, count, engine_log, worker_az_za,
                   worker_interp, full_tasklist,
          delivered, uvdata_out, exception, aborted, src_obj, beam_obj, last_call,
          mpi_module>>

\* The objects of the direct calls and the mpi module.
obj_vars == <<src_obj, beam_obj, last_call, mpi_module>>
\* The state of run_uvsim.
run_vars == <<Npus, args, pc, uvtask_list, split_list, uv_container, scatter_sent, scatter_buf,
              local_task_list, summed_task_dict, count, engine_log, worker_az_za,
                   worker_interp, full_tasklist,
              delivered, uvdata_out, exception, aborted>>

Ranks == 0..Npus - 1

\* mock_keywords without any key (or None, which run_uvsim replaces by {}).
NoKeywords == [arrangement |-> Absent, Nsrcs |-> Absent, zen_ang |-> Absent, time |-> Absent]

\* The mock catalogs of the runs: the default one; Nsrcs sources at the
\* zenith of the first time of the geometry, for the numbers Nsrcs that give
\* each source a whole number of flux units and a whole coherency; one
\* source at the zenith of time 2; and one source 120 degrees off the
\* zenith of the first time.
MockKeywords ==
    {NoKeywords, [NoKeywords EXCEPT !.time = <<2>>],
     [NoKeywords EXCEPT !.arrangement = <<"off-zenith">>, !.zen_ang = <<120>>]}
    \cup {[NoKeywords EXCEPT !.arrangement = <<"zenith">>, !.Nsrcs = <<k>>] :
            k \in {j \in 1..MaxNsrcs : FluxUnit % (2 * j) = 0}}

\* The calls of run_uvsim the model runs: every geometry and mock catalog
\* within the bounds with a tophat beam; and, for the single-channel
\* geometries of layout 2, every beam configuration and every single
\* malformed argument; the last of these is a geometry that holds the XX
\* polarization only.
GoodArgs(uv, mk, bc) ==
    [input_uv |-> uv, is_uvdata |-> TRUE, catalog_file |-> None, mock_keywords |-> mk,
     beam_list |-> bc.beam_list, beam_dict |-> bc.beam_dict,
     uvdata_file |-> <<"sim.uvfits">>]

InputCases ==
    LET geoms == {InputUV(nb, nf, lay) : nb \in 1..MaxNblts, nf \in 1..MaxNfreqs, lay \in 1..2}
        pairs == {p \in geoms \X MockKeywords :
                     p[1].Nblts * p[1].Nfreqs *
                        (IF p[2].arrangement = <<"off-zenith">> \/ p[2].Nsrcs = Absent
                         THEN 1 ELSE p[2].Nsrcs[1]) <= MaxTasks}
        few == {p \in pairs : p[1].Nfreqs = 1 /\ p[1].ant_2_array[1] = 0}
        plain == {GoodArgs(p[1], p[2], [beam_list |-> <<TophatBeam>>, beam_dict |-> None]) : p \in few}
    IN  {GoodArgs(p[1], p[2], [beam_list |-> <<TophatBeam>>, beam_dict |-> None]) : p \in pairs}
        \cup {GoodArgs(p[1], p[2], bc) : p \in few, bc \in BeamConfigs}
        \cup {[a EXCEPT !.is_uvdata = FALSE] : a \in plain}
        \cup {[a EXCEPT !.catalog_file = f] : a \in plain,
                 f \in {<<"m", "o", "c", "k">>, <<"c", ".", "t", "x", "t">>,
                        <<"c", ".", "v", "o", "t">>, <<"c", ".", "d", "a", "t">>}}
        \cup {[a EXCEPT !.mock_keywords.arrangement = <<"horizon">>] : a \in plain}
        \cup {[a EXCEPT !.uvdata_file = None] : a \in plain}
        \cup {[a EXCEPT !.input_uv.polarization_array = <<-5>>] : a \in plain}

\* The names create_mock_catalog gives its sources.
MockNames == {"src" \o ToString(i) : i \in 0..MaxNsrcs - 1}

\* Source.az_za is None on the class; no object, no call yet.
NoSource == [name |-> "", az_za |-> None]
NoBeam == [cls |-> "", type |-> "", sigma |-> None, diameter |-> None]
NoCall == [op |-> "", name |-> "", time |-> 0, ok |-> <<>>, ret |-> None, raised |-> ""]

RunInit ==
    /\ src_obj = NoSource
    /\ beam_obj = NoBeam
    /\ last_call = NoCall
    /\ Npus \in 1..MaxNpus
    /\ args \in InputCases
    /\ pc = [r \in Ranks |-> "start"]
    /\ uvtask_list = <<>>
    /\ split_list = <<>>
    /\ uv_container = None
    /\ scatter_sent = FALSE
    /\ scatter_buf = [r \in Ranks |-> <<>>]
    /\ local_task_list = [r \in Ranks |-> <<>>]
    /\ summed_task_dict = [r \in Ranks |-> <<>>]
    /\ count = [r \in Ranks |-> 0]
    /\ engine_log = [r \in Ranks |-> <<>>]
    /\ worker_az_za = [r \in Ranks |-> [name \in MockNames |-> None]]
    /\ worker_interp = [r \in Ranks |-> [b \in 1..Len(args.beam_list) |-> None]]
    /\ full_tasklist = [r \in Ranks |-> <<>>]
    /\ delivered = {}
    /\ uvdata_out = None
    /\ exception = [r \in Ranks |-> ""]
    /\ aborted = FALSE

\* run_uvsim takes its communicator from mpi4py itself; pyuvsim.mpi is as
\* its import with the package left it.
Init == RunInit /\ mpi_module = mpi_imported(0, TRUE, TRUE)

\* ----------------------------------------------------------- the actions
\* An exception leaves run_uvsim uncaught: the interpreter will call
\* sys.excepthook on this rank.
Raise(r, exctype) ==
    /\ pc' = [pc EXCEPT ![r] = "raised"]
    /\ exception' = [exception EXCEPT ![r] = exctype]

\* run_uvsim, every rank: the isinstance check on input_uv.
CheckInput(r) ==
    /\ ~aborted
    /\ pc[r] = "start"
    /\ IF ~args.is_uvdata
       THEN Raise(r, "TypeError")
       ELSE /\ pc' = [pc EXCEPT ![r] = IF r = 0 THEN "build" ELSE "scatter"]
            /\ UNCHANGED exception
    /\ UNCHANGED <<Npus, args, uvtask_list, split_list, uv_container, scatter_sent, scatter_buf,
                   local_task_list, summed_task_dict, count, engine_log, worker_az_za,
                   worker_interp,
                   full_tasklist, delivered, uvdata_out, aborted>>

\* run_uvsim, rank 0: the catalog and uvdata_to_task_list, which refuses
\* several beams without beam_dict.
BuildTasks ==
    /\ ~aborted
    /\ pc[0] = "build"
    /\ LET made == run_uvsim_catalog(args.input_uv, args.catalog_file, args.mock_keywords)
       IN  IF made.raised # ""
           THEN Raise(0, made.raised) /\ UNCHANGED uvtask_list
           ELSE IF Len(args.beam_list) > 1 /\ args.beam_dict = None
           THEN Raise(0, "ValueError") /\ UNCHANGED uvtask_list
           ELSE /\ uvtask_list' = uvdata_to_task_list(args.input_uv, made.catalog,
                                                      args.beam_list, args.beam_dict)
                /\ pc' = [pc EXCEPT ![0] = "init_uvdata"]
                /\ UNCHANGED exception
    /\ UNCHANGED <<Npus, args, split_list, uv_container, scatter_sent, scatter_buf,
                   local_task_list, summed_task_dict, count, engine_log, worker_az_za,
                   worker_interp,
                   full_tasklist, delivered, uvdata_out, aborted>>

\* run_uvsim, rank 0: initialize_uvdata.  It needs uvdata_file (no config
\* files are passed) and reads the telescope off the first task.
InitializeUvdata ==
    /\ ~aborted
    /\ pc[0] = "init_uvdata"
    /\ IF args.uvdata_file = None
       THEN Raise(0, "ValueError") /\ UNCHANGED uv_container
       ELSE IF uvtask_list = <<>>
       THEN Raise(0, "IndexError") /\ UNCHANGED uv_container
       ELSE /\ uv_container' = initialize_uvdata(uvtask_list)
            /\ pc' = [pc EXCEPT ![0] = "split"]
            /\ UNCHANGED exception
    /\ UNCHANGED <<Npus, args, uvtask_list, split_list, scatter_sent, scatter_buf,
                   local_task_list, summed_task_dict, count, engine_log, worker_az_za,
                   worker_interp,
                   full_tasklist, delivered, uvdata_out, aborted>>

\* run_uvsim, rank 0: np.array_split into Npus lists.
SplitTaskList ==
    /\ ~aborted
    /\ pc[0] = "split"
    /\ split_list' = array_split(uvtask_list, Npus)
    /\ pc' = [pc EXCEPT ![0] = "scatter"]
    /\ UNCHANGED <<Npus, args, uvtask_list, uv_container, scatter_sent, scatter_buf,
                   local_task_list, summed_task_dict, count, engine_log, worker_az_za,
                   worker_interp,
                   full_tasklist, delivered, uvdata_out, exception, aborted>>

\* comm.scatter on the root: every rank's shard is on its way, the root
\* keeps its own.
ScatterRoot ==
    /\ ~aborted
    /\ pc[0] = "scatter"
    /\ scatter_sent' = TRUE
    /\ scatter_buf' = [r \in Ranks |-> split_list[r + 1]]
    /\ local_task_list' = [local_task_list EXCEPT ![0] = split_list[1]]
    /\ pc' = [pc EXCEPT ![0] = "compute"]
    /\ UNCHANGED <<Npus, args, uvtask_list, split_list, uv_container, summed_task_dict, count,
                   engine_log, worker_az_za,
                   worker_interp, full_tasklist, delivered, uvdata_out, exception, aborted>>

\* A receive that does not wait for the root.
ScatterArrivedEarly(r) == TRUE

\* comm.scatter blocks a rank until the root's scatter has sent its shard.
ScatterArrived(r) == scatter_sent

\* comm.scatter on another rank.
ScatterRecv(r) ==
    /\ ~aborted
    /\ r # 0
    /\ pc[r] = "scatter"
    /\ ScatterArrived(r)
    /\ local_task_list' = [local_task_list EXCEPT ![r] = scatter_buf[r]]
    /\ pc' = [pc EXCEPT ![r] = "compute"]
    /\ UNCHANGED <<Npus, args, uvtask_list, split_list, uv_container, scatter_sent, scatter_buf,
                   summed_task_dict, count, engine_log, worker_az_za,
                   worker_interp, full_tasklist, delivered,
                   uvdata_out, exception, aborted>>

\* A write that reaches the copy of every rank, as on one shared object.
WriteShared(copies, r, new) == [q \in DOMAIN copies |-> new]

\* A write of rank r to an object of its shard: comm.scatter has given
\* every rank its own pickled copy, and only that one changes.
WriteOwn(copies, r, new) == [copies EXCEPT ![r] = new]

\* One pass of the compute loop: a UVEngine for the next task, and its
\* visibility set or added in the table.  make_visibility leaves the task's
\* az_za on the rank's copy of the source and the interpolation function on
\* its copies of the beams; when it raises, the task is in the table
\* already if its index was new.
ComputeTask(r) ==
    /\ ~aborted
    /\ pc[r] = "compute"
    /\ count[r] < Len(local_task_list[r])
    /\ LET task == local_task_list[r][count[r] + 1]
           held == worker_az_za[r][task.source.name]
       IN  /\ engine_log' = [engine_log EXCEPT ![r] = Append(@, task)]
           /\ worker_az_za' = WriteOwn(worker_az_za, r,
                  [worker_az_za[r] EXCEPT ![task.source.name] = az_za_after_apply_beam(held, task)])
           /\ worker_interp' = WriteOwn(worker_interp, r,
                                        interp_after_apply_beam(worker_interp[r], task))
           /\ IF MakeVisibilityRaises(task)
              THEN /\ Raise(r, "ValueError")
                   /\ summed_task_dict' = [summed_task_dict EXCEPT ![r] = FileTask(@, task)]
                   /\ UNCHANGED <<count, local_task_list>>
              ELSE /\ summed_task_dict' = [summed_task_dict EXCEPT ![r] =
                                              ReduceStep(@, task, make_visibility_cached(held, task))]
                   /\ local_task_list' = [local_task_list EXCEPT ![r] =
                                             AliasTable(@, summed_task_dict'[r])]
                   /\ count' = [count EXCEPT ![r] = @ + 1]
                   /\ UNCHANGED <<pc, exception>>
    /\ UNCHANGED <<Npus, args, uvtask_list, split_list, uv_container, scatter_sent, scatter_buf,
                   full_tasklist, delivered, uvdata_out, aborted>>

\* The loop is over: the rank goes on to comm.gather.
FinishLoop(r) ==
    /\ ~aborted
    /\ pc[r] = "compute"
    /\ count[r] = Len(local_task_list[r])
    /\ pc' = [pc EXCEPT ![r] = "gather"]
    /\ UNCHANGED <<Npus, args, uvtask_list, split_list, uv_container, scatter_sent, scatter_buf,
                   local_task_list, summed_task_dict, count, engine_log, worker_az_za,
                   worker_interp,
                   full_tasklist, delivered, uvdata_out, exception, aborted>>

\* comm.gather on a rank other than the root: its table goes to the root
\* and run_uvsim returns None.
GatherSend(r) ==
    /\ ~aborted
    /\ r # 0
    /\ pc[r] = "gather"
    /\ \E summed_local_task_list \in DictValues(summed_task_dict[r]) :
          full_tasklist' = [full_tasklist EXCEPT ![r] = summed_local_task_list]
    /\ delivered' = delivered \cup {r}
    /\ pc' = [pc EXCEPT ![r] = "returned"]
    /\ UNCHANGED <<Npus, args, uvtask_list, split_list, uv_container, scatter_sent, scatter_buf,
                   local_task_list, summed_task_dict, count, engine_log, worker_az_za,
                   worker_interp,
                   uvdata_out, exception, aborted>>

\* A gather that does not wait for the other ranks.
GatherCompleteEarly == TRUE

\* comm.gather returns on the root once every other rank's table is there.
GatherComplete == \A r \in Ranks \ {0} : r \in delivered

\* comm.gather on the root.
GatherRoot ==
    /\ ~aborted
    /\ pc[0] = "gather"
    /\ GatherComplete
    /\ \E summed_local_task_list \in DictValues(summed_task_dict[0]) :
          full_tasklist' = [full_tasklist EXCEPT ![0] = summed_local_task_list]
    /\ delivered' = delivered \cup {0}
    /\ pc' = [pc EXCEPT ![0] = "merge"]
    /\ UNCHANGED <<Npus, args, uvtask_list, split_list, uv_container, scatter_sent, scatter_buf,
                   local_task_list, summed_task_dict, count, engine_log, worker_az_za,
                   worker_interp,
                   uvdata_out, exception, aborted>>

\* run_uvsim, rank 0: the gathered lists are concatenated and serial_gather
\* adds them into the container.
MergeGathered ==
    /\ ~aborted
    /\ pc[0] = "merge"
    /\ uvtask_list' = Flatten([i \in 1..Npus |-> full_tasklist[i - 1]])
    /\ uv_container' = serial_gather(uvtask_list', uv_container)
    /\ pc' = [pc EXCEPT ![0] = "merged"]
    /\ UNCHANGED <<Npus, args, split_list, scatter_sent, scatter_buf, local_task_list,
                   summed_task_dict, count, engine_log, worker_az_za,
                   worker_interp, full_tasklist, delivered, uvdata_out,
                   exception, aborted>>

\* run_uvsim, rank 0: return uvdata_out, the container serial_gather filled.
ReturnOut ==
    /\ ~aborted
    /\ pc[0] = "merged"
    /\ uvdata_out' = uv_container
    /\ pc' = [pc EXCEPT ![0] = "done"]
    /\ UNCHANGED <<Npus, args, uvtask_list, split_list, uv_container, scatter_sent,
                   scatter_buf, local_task_list, summed_task_dict, count, engine_log,
                   worker_az_za, worker_interp, full_tasklist, delivered,
                   exception, aborted>>

\* Python's default hook: the traceback is printed and only this process
\* ends.
default_excepthook(r) ==
    /\ ~aborted
    /\ pc[r] = "raised"
    /\ pc' = [pc EXCEPT ![r] = "exited"]
    /\ UNCHANGED <<Npus, args, uvtask_list, split_list, uv_container, scatter_sent,
                   scatter_buf, local_task_list, summed_task_dict, count,
                   engine_log, worker_az_za,
                   worker_interp, full_tasklist, delivered, uvdata_out, exception,
                   aborted>>

\* mpi_excepthook on a rank with an uncaught exception: the traceback is
\* printed and MPI.COMM_WORLD.Abort(1) ends every process of the job.
mpi_excepthook(r) ==
    /\ ~aborted
    /\ pc[r] = "raised"
    /\ aborted' = TRUE
    /\ UNCHANGED <<Npus, args, pc, uvtask_list, split_list, uv_container, scatter_sent,
                   scatter_buf, local_task_list, summed_task_dict, count,
                   engine_log, worker_az_za,
                   worker_interp, full_tasklist, delivered, uvdata_out, exception>>

\* ------------------------------------------- direct calls on the objects
\* The times of the direct queries.
QueryTimes == 1..MaxNblts

\* Source(name, ra, dec, freq, stokes) with ra, dec and freq of the right
\* type or not: the object exists only if __init__ does not raise.
NewSource(name, ra_is_angle, dec_is_angle, freq_is_quantity) ==
    /\ src_obj = NoSource
    /\ LET msg == Source_init_raises(ra_is_angle, dec_is_angle, freq_is_quantity)
       IN  /\ src_obj' = IF msg = "" THEN [name |-> name, az_za |-> None] ELSE src_obj
           /\ last_call' = [op |-> "Source", name |-> name, time |-> 0,
                            ok |-> <<ra_is_angle, dec_is_angle, freq_is_quantity>>,
                            ret |-> None, raised |-> msg]
    /\ UNCHANGED beam_obj

\* source.az_za_calc(time, telescope_location): sets and returns az_za.
AzZaCalcCall(time) ==
    /\ src_obj # NoSource
    /\ src_obj' = [src_obj EXCEPT !.az_za = az_za_calc(NamedSource(src_obj.name), time)]
    /\ last_call' = [op |-> "az_za_calc", name |-> src_obj.name, time |-> time, ok |-> <<>>,
                     ret |-> az_za_calc(NamedSource(src_obj.name), time), raised |-> ""]
    /\ UNCHANGED beam_obj

\* source.pos_lmn(time, telescope_location): fills az_za if it is None and
\* returns the direction cosines of the az_za the source holds.
PosLmnCall(time) ==
    /\ src_obj # NoSource
    /\ src_obj' = [src_obj EXCEPT !.az_za =
                      IF @ = None THEN az_za_calc(NamedSource(src_obj.name), time) ELSE @]
    /\ last_call' = [op |-> "pos_lmn", name |-> src_obj.name, time |-> time, ok |-> <<>>,
                     ret |-> pos_lmn(src_obj.az_za, NamedSource(src_obj.name), time),
                     raised |-> ""]
    /\ UNCHANGED beam_obj

\* source.coherency_calc(time, telescope_location).
CoherencyCalcCall(time) ==
    /\ src_obj # NoSource
    /\ last_call' = [op |-> "coherency_calc", name |-> src_obj.name, time |-> time,
                     ok |-> <<>>, ret |-> coherency_calc(NamedSource(src_obj.name), time),
                     raised |-> ""]
    /\ UNCHANGED <<src_obj, beam_obj>>

\* simsetup.initialize_catalog_from_params(obs_params, input_uv).
InitializeCatalogCall(source_params, input_uv) ==
    /\ last_call' = [op |-> "initialize_catalog_from_params", name |-> "", time |-> 0,
                     ok |-> <<source_params, input_uv>>,
                     ret |-> initialize_catalog_from_params(source_params, input_uv).catalog,
                     raised |-> initialize_catalog_from_params(source_params, input_uv).raised]
    /\ UNCHANGED <<src_obj, beam_obj>>

\* AnalyticBeam(type, sigma, diameter) of either class.
NewBeam(cls, type, sigma, diameter) ==
    /\ beam_obj = NoBeam
    /\ cls = "uvsim" => diameter = None
    /\ beam_obj' = IF AnalyticBeam_init_raises(cls, type, sigma, diameter)
                   THEN beam_obj
                   ELSE AnalyticBeam(cls, type, sigma, diameter)
    /\ last_call' = [op |-> "AnalyticBeam", name |-> type, time |-> 0,
                     ok |-> <<cls, sigma, diameter>>,
                     ret |-> None,
                     raised |-> IF AnalyticBeam_init_raises(cls, type, sigma, diameter)
                                THEN "type not recognized" ELSE ""]
    /\ UNCHANGED src_obj

\* beam.interp for a direction at zenith angle za (0 or 90 degrees) and a
\* frequency in Hz, on a beam of either class.
InterpCall(za, freq) ==
    /\ beam_obj # NoBeam
    /\ last_call' = [op |-> "interp", name |-> beam_obj.type, time |-> 0, ok |-> <<za, freq>>,
                     ret |-> IF InterpRaises(beam_obj) THEN None
                             ELSE IF beam_obj.cls = "uvsim" THEN <<interp(beam_obj, za)>>
                             ELSE <<interp_analyticbeam(beam_obj, za, freq)>>,
                     raised |-> IF InterpRaises(beam_obj) THEN "ValueError" ELSE ""]
    /\ UNCHANGED <<src_obj, beam_obj>>

\* UVEngine(task).update_task() on a task of a named source on the
\* baseline (0, n): the task afterwards, or what make_visibility raised.
UpdateTaskCall(name, time, n, beam) ==
    LET task == UVTask(NamedSource(name), time, 100, Baseline(Antenna(0, None), Antenna(n, None)),
                       Telescope(<<beam>>), 0, 0)
    IN  /\ last_call' = [op |-> "update_task", name |-> name, time |-> time,
                         ok |-> <<task>>,
                         ret |-> IF MakeVisibilityRaises(task) THEN None ELSE update_task(task),
                         raised |-> IF MakeVisibilityRaises(task) THEN "ValueError" ELSE ""]
        /\ UNCHANGED <<src_obj, beam_obj>>

\* The loopback of a configuration: uvdata_to_config_file writes the
\* parameters of a geometry, initialize_uvdata_from_params builds a geometry
\* for the Nants antennas of its telescope from them, and
\* uvdata_to_config_file writes the parameters of that one.
\* initialize_uvdata_from_params is given the name of the written file
\* (by_name), or, as test_uvfits_to_config does, the dictionary loaded from
\* it with 'config_path' added.
ConfigLoopbackCall(uvdata_in, Nants, by_name) ==
    LET written == uvdata_to_config_file(uvdata_in)
        param_dict == IF by_name THEN config_str_to_dict(written)
                      ELSE yaml_safe_load(written)
        uv1 == initialize_uvdata_from_params(param_dict, Nants)
        raised == IF written.raised # "" THEN written.raised
                  ELSE IF uv1.raised # "" THEN uv1.raised
                  ELSE uvdata_to_config_file(uv1).raised
    IN  /\ last_call' = [op |-> "uvdata_to_config_file", name |-> "", time |-> 0,
                         ok |-> <<uvdata_in, Nants, by_name>>,
                         ret |-> IF raised # "" THEN None
                                 ELSE <<written, uvdata_to_config_file(uv1)>>,
                         raised |-> raised]
        /\ UNCHANGED <<src_obj, beam_obj>>

\* The steps of one rank.
RankStep(r) ==
    /\ UNCHANGED obj_vars
    /\ \/ CheckInput(r)
       \/ (r = 0 /\ BuildTasks)
       \/ (r = 0 /\ InitializeUvdata)
       \/ (r = 0 /\ SplitTaskList)
       \/ (r = 0 /\ ScatterRoot)
       \/ ScatterRecv(r)
       \/ ComputeTask(r)
       \/ FinishLoop(r)
       \/ GatherSend(r)
       \/ (r = 0 /\ GatherRoot)
       \/ (r = 0 /\ MergeGathered)
       \/ (r = 0 /\ ReturnOut)
       \/ mpi_excepthook(r)

Next == \E r \in Ranks : RankStep(r)

Spec == Init /\ [][Next]_vars

\* 'sources' sections: with or without 'catalog' (the mock catalog of
\* Nsrcs sources) and 'time'.
SourceParams ==
    [has_catalog : BOOLEAN, has_time : {TRUE}, time : QueryTimes, Nsrcs : 1..MaxNsrcs]
    \cup [has_catalog : BOOLEAN, has_time : {FALSE}, time : {0}, Nsrcs : 1..MaxNsrcs]

\* The input_uv argument: absent, something that is no UVData, or a
\* geometry of MaxNblts rows.
InputUVArgs ==
    {[given |-> FALSE, is_uvdata |-> FALSE, uv |-> InputUV(1, 1, 1)],
     [given |-> TRUE, is_uvdata |-> FALSE, uv |-> InputUV(1, 1, 1)]}
    \cup {[given |-> TRUE, is_uvdata |-> TRUE, uv |-> InputUV(MaxNblts, 1, lay)] : lay \in 1..2}

\* The geometries of the loopback: ntimes times a second apart, each held
\* by nbls baselines, with an integration time of one second, and nfreqs
\* channels.
LoopbackGeometries ==
    {[time_array |-> Repeat([i \in 1..ntimes |-> Whole(i)], nbls),
      integration_time |-> [i \in 1..ntimes * nbls |-> Whole(1)],
      freq_array |-> [f \in 1..nfreqs |-> Whole(100 + 50 * (f - 1))]] :
        ntimes \in 1..MaxNblts, nbls \in 1..MaxNants, nfreqs \in 1..MaxNfreqs}

\* Dish diameters, in metres.
Diameters == {1, 14, 20}

\* The frequencies of the direct calls of interp: those of the geometries
\* and 100 MHz.
InterpFreqs == {100 + 50 * (f - 1) : f \in 1..MaxNfreqs} \cup {100000000}

\* Direct calls on a Source and on a beam, outside any run.
ObjectInit == Init /\ Npus = 1 /\ args = GoodArgs(InputUV(1, 1, 1), NoKeywords,
                                                  [beam_list |-> <<TophatBeam>>, beam_dict |-> None])

ObjectNext ==
    /\ UNCHANGED run_vars
    /\ UNCHANGED mpi_module
    /\ \/ \E name \in SourceNames \cup {"p"} : \E ra, dec, freq \in BOOLEAN :
             NewSource(name, ra, dec, freq)
       \/ \E time \in QueryTimes : AzZaCalcCall(time)
       \/ \E time \in QueryTimes : PosLmnCall(time)
       \/ \E time \in QueryTimes : CoherencyCalcCall(time)
       \/ \E cls \in {"uvsim", "analyticbeam"} :
          \E type \in {"tophat", "uniform", "gaussian", "airy", "bogus"} :
          \E sigma \in {None, <<1>>} : \E diameter \in {None} \cup {<<d>> : d \in Diameters} :
             NewBeam(cls, type, sigma, diameter)
       \/ \E za \in {0, 90} : \E freq \in InterpFreqs : InterpCall(za, freq)
       \/ \E name \in {"a", "b", "p"} : \E time \in QueryTimes : \E n \in 0..1 :
          \E beam \in {TophatBeam, GaussianBeam, GaussianNoSigma} :
             UpdateTaskCall(name, time, n, beam)

ObjectSpec == ObjectInit /\ [][ObjectNext]_vars

\* Direct calls of the functions of simsetup, outside any run.
SetupInit == Init /\ Npus = 1 /\ args = GoodArgs(InputUV(1, 1, 1), NoKeywords,
                                                 [beam_list |-> <<TophatBeam>>, beam_dict |-> None])

SetupNext ==
    /\ UNCHANGED run_vars
    /\ UNCHANGED mpi_module
    /\ \/ \E source_params \in SourceParams : \E input_uv \in InputUVArgs :
             InitializeCatalogCall(source_params, input_uv)
       \/ \E uvdata_in \in LoopbackGeometries : \E Nants \in 1..MaxNants :
             \E by_name \in BOOLEAN : ConfigLoopbackCall(uvdata_in, Nants, by_name)

SetupSpec == SetupInit /\ [][SetupNext]_vars

\* The calls of InputCases on the single-channel geometries of layout 2
\* with a catalog at the zenith of the first time of the geometry: every
\* number of tasks per rank, every beam configuration and every malformed
\* argument, which is all that the control flow of a run depends on.
FairCases ==
    {a \in InputCases : /\ a.input_uv.Nfreqs = 1
                        /\ a.input_uv.ant_2_array[1] = 0
                        /\ a.mock_keywords.time = Absent
                        /\ a.mock_keywords.zen_ang = Absent}

FairInit == Init /\ args \in FairCases

\* The job does not stop while some rank can take a step: the ranks are
\* running processes.
FairSpec == FairInit /\ [][Next]_vars /\ WF_vars(Next)

\* ------------------------------------------- direct calls on pyuvsim.mpi
\* This process: the rank world_rank of a world of Npus processes.
ThisProcess == mpi_module.world_rank

\* mpi.start_mpi()
StartMpiCall ==
    /\ pc[ThisProcess] = "start"
    /\ mpi_module' = start_mpi(mpi_module, Npus).module
    /\ last_call' = [op |-> "start_mpi", name |-> "", time |-> 0,
                     ok |-> <<mpi_module.loaded, mpi_module.initialized, mpi_module.comm # None>>,
                     ret |-> None, raised |-> start_mpi(mpi_module, Npus).raised]
    /\ IF start_mpi(mpi_module, Npus).raised # ""
       THEN Raise(ThisProcess, start_mpi(mpi_module, Npus).raised)
       ELSE UNCHANGED <<pc, exception>>
    /\ UNCHANGED aborted

\* from mpi4py import MPI in the code that uses the module, as
\* scripts/run_param_pyuvsim.py has after its import of the package: the
\* submodule becomes an attribute of mpi4py; MPI_Init is not called, because
\* line 9 of the module has set mpi4py.rc.initialize to False.  A second
\* import changes nothing.
ImportMPI ==
    /\ pc[ThisProcess] = "start"
    /\ mpi_module' = [mpi_module EXCEPT !.loaded = TRUE]
    /\ last_call' = [op |-> "import", name |-> "mpi4py.MPI", time |-> 0,
                     ok |-> <<mpi_module.loaded>>, ret |-> None, raised |-> ""]
    /\ UNCHANGED <<pc, exception, aborted>>

\* mpi.set_mpi_excepthook(MPI.COMM_WORLD), called on its own by code that
\* has imported mpi4py.MPI for the communicator: the hook is installed and
\* the globals of the module stay as they are.
SetMpiExcepthookCall ==
    /\ pc[ThisProcess] = "start"
    /\ mpi_module.loaded
    /\ mpi_module' = set_mpi_excepthook(mpi_module)
    /\ last_call' = [op |-> "set_mpi_excepthook", name |-> "", time |-> 0,
                     ok |-> <<COMM_WORLD>>, ret |-> None, raised |-> ""]
    /\ UNCHANGED <<pc, exception, aborted>>

\* mpi.get_rank(), mpi.get_Npus() or mpi.get_comm()
GetterCall(getter) ==
    /\ pc[ThisProcess] = "start"
    /\ last_call' = [op |-> getter, name |-> "", time |-> 0, ok |-> <<>>,
                     ret |-> CASE getter = "get_rank" -> <<get_rank(mpi_module)>>
                               [] getter = "get_Npus" -> <<get_Npus(mpi_module)>>
                               [] getter = "get_comm" -> <<get_comm(mpi_module)>>,
                     raised |-> ""]
    /\ UNCHANGED <<mpi_module, pc, exception, aborted>>

\* Some code of the process raises an exception that nothing catches.
UncaughtException ==
    /\ pc[ThisProcess] = "start"
    /\ Raise(ThisProcess, "Exception")
    /\ last_call' = [op |-> "raise", name |-> "", time |-> 0, ok |-> <<>>, ret |-> None,
                     raised |-> "Exception"]
    /\ UNCHANGED <<mpi_module, aborted>>

\* The interpreter runs sys.excepthook and ends the process: the hooks of
\* uvsim.py and of set_mpi_excepthook abort the job, the default hook only
\* prints.
RunExcepthook ==
    /\ pc[ThisProcess] = "raised"
    /\ pc' = [pc EXCEPT ![ThisProcess] = "exited"]
    /\ aborted' = HookAborts(mpi_module.excepthook)
    /\ UNCHANGED <<mpi_module, last_call, exception>>

\* A process of a world of 1..MaxNpus processes that has imported
\* pyuvsim.mpi, with the package (mpi4py.MPI is imported and MPI initialized
\* then) or from its file, after an import of mpi4py.MPI or without one.
MpiInit ==
    /\ RunInit
    /\ args = GoodArgs(InputUV(1, 1, 1), NoKeywords,
                       [beam_list |-> <<TophatBeam>>, beam_dict |-> None])
    /\ \E world_rank \in Ranks : \E loaded, via_package \in BOOLEAN :
          /\ via_package => loaded
          /\ mpi_module = mpi_imported(world_rank, loaded, via_package)

MpiNext ==
    /\ UNCHANGED <<Npus, args, uvtask_list, split_list, uv_container, scatter_sent,
                   scatter_buf, local_task_list, summed_task_dict, count, engine_log,
                   worker_az_za, worker_interp, full_tasklist, delivered, uvdata_out,
                   src_obj, beam_obj>>
    /\ \/ StartMpiCall
       \/ ImportMPI
       \/ SetMpiExcepthookCall
       \/ \E getter \in {"get_rank", "get_Npus", "get_comm"} : GetterCall(getter)
       \/ UncaughtException
       \/ RunExcepthook

MpiSpec == MpiInit /\ [][MpiNext]_vars

\* ------------------------------------------------------------ run_uvsim
\* run_uvsim from the split to the merge, as a function of the task list
\* and the number of ranks.
RECURSIVE GatheredLists(_, _)
\* The lists sum(full_tasklist, []) can be for the shards i, i + 1, ...
GatheredLists(shards, i) ==
    IF i > Len(shards) THEN {<<>>}
    ELSE {v \o rest : v \in DictValues(LocalReduce(shards[i], Len(shards[i]))),
                      rest \in GatheredLists(shards, i + 1)}

\* The containers a run can return for a task list on npus ranks.
RunSim(tasks, npus) ==
    {serial_gather(l, initialize_uvdata(tasks)) : l \in GatheredLists(array_split(tasks, npus), 1)}

\* What run_uvsim gives on rank 0 for a geometry, a catalog and tophat or
\* gaussian beams that raise nothing: initialize_uvdata reads the first
\* task and raises IndexError when there is none; out is the set of the
\* containers it can return.
RunOutcome(uv, catalog, beam_list, beam_dict, npus) ==
    LET tasks == uvdata_to_task_list(uv, catalog, beam_list, beam_dict)
    IN  IF tasks = <<>>
        THEN [exc |-> "IndexError", out |-> {}]
        ELSE [exc |-> "", out |-> RunSim(tasks, npus)]

\* ------------------------------------------------- what the claims speak of
\* The catalog of this run.
RunCatalog == run_uvsim_catalog(args.input_uv, args.catalog_file, args.mock_keywords).catalog

\* The task list the builder makes from the arguments of this run.
BuiltList == uvdata_to_task_list(args.input_uv, RunCatalog, args.beam_list, args.beam_dict)

\* The tasks of a list as the scatter delivers them, before the loop has
\* stored a visibility on any of them.
Pristine(list) == [k \in DOMAIN list |-> [list[k] EXCEPT !.visibility_vector = None]]

\* Rank 0 has split the task list.
ShardsHeld == split_list # <<>>

RECURSIVE SumVis(_, _)
\* The sum of the visibilities of the tasks at the positions ks of a list.
SumVis(tasks, ks) ==
    IF ks = {} THEN Zero4
    ELSE LET k == CHOOSE x \in ks : TRUE
         IN  VecAdd(make_visibility(tasks[k]), SumVis(tasks, ks \ {k}))

\* The positions of a list whose task goes to the bin d.
TasksOfBin(tasks, d) == {k \in 1..Len(tasks) : tasks[k].uvdata_index = d}

\* shards is a partition of list into n contiguous parts of near-equal size.
IsPartition(list, shards, n) ==
    /\ Len(shards) = n
    /\ Flatten(shards) = list
    /\ \A k \in 1..Len(list) :
          Cardinality({ij \in (1..n) \X (1..Len(list)) :
                          ij[2] <= Len(shards[ij[1]]) /\ shards[ij[1]][ij[2]] = list[k]}) = 1
    /\ \A i, j \in 1..n : Len(shards[i]) - Len(shards[j]) <= 1

\* C1: when rank 0 holds the shards, there are exactly Npus of them, their
\* concatenation is the built task list, every task is in exactly one shard
\* once, and their sizes differ by at most one; and when the split is made
\* (the scatter has not begun) the same holds of the split of every prefix
\* of the list, the empty one included.
PartitionInvariant ==
    /\ ShardsHeld => IsPartition(BuiltList, split_list, Npus)
    /\ (ShardsHeld /\ ~scatter_sent) =>
          \A n \in 0..Len(BuiltList) :
              IsPartition(SubSeq(BuiltList, 1, n), array_split(SubSeq(BuiltList, 1, n), Npus), Npus)

\* A split with more ranks than tasks has been made: some shards are empty.
PartitionWitness ==
    /\ ShardsHeld
    /\ Len(BuiltList) >= 2
    /\ \E i, j \in 1..Npus : split_list[i] = <<>> /\ Len(split_list[j]) = 1

\* C2: when run_uvsim has returned on rank 0, every bin of the container
\* holds the sum of the visibilities of exactly the tasks of the built list
\* with that destination index, and every task has a bin.
MergedIsSumOfTasks ==
    pc[0] = "done" =>
        /\ \A k \in 1..Len(BuiltList) : BuiltList[k].uvdata_index \in DOMAIN uvdata_out
        /\ \A d \in DOMAIN uvdata_out :
              uvdata_out[d] = SumVis(BuiltList, TasksOfBin(BuiltList, d))

\* A finished run in which a bin got nonzero contributions from two ranks
\* and another rank reduced two tasks of one bin.
MergedWitness ==
    /\ pc[0] = "done"
    /\ Npus >= 2
    /\ \E r1, r2 \in Ranks : \E d \in DOMAIN uvdata_out :
          /\ r1 # r2
          /\ d \in DOMAIN summed_task_dict[r1] /\ d \in DOMAIN summed_task_dict[r2]
          /\ summed_task_dict[r1][d].visibility_vector # Zero4
          /\ summed_task_dict[r2][d].visibility_vector # Zero4
    /\ \E r3 \in Ranks : \E i, j \in 1..Len(local_task_list[r3]) :
          i # j /\ local_task_list[r3][i].uvdata_index = local_task_list[r3][j].uvdata_index

\* C3: the container run_uvsim returns with Npus ranks is the one it
\* returns with one rank, for the same geometry and catalog, whatever the
\* order in which the table lists its entries.
OneWorkerEquivalence ==
    pc[0] = "done" => RunSim(BuiltList, 1) = {uvdata_out}

\* A finished run on several ranks, each with tasks, and a nonzero result.
OneWorkerWitness ==
    /\ pc[0] = "done"
    /\ Npus >= 2
    /\ \A r \in Ranks : Len(local_task_list[r]) >= 1
    /\ \E d \in DOMAIN uvdata_out : uvdata_out[d] # Zero4

\* The list tasks in the order p.
Permuted(tasks, p) == [k \in 1..Len(tasks) |-> tasks[p[k]]]

\* C4: whatever the order in which the tasks are given to the split, and
\* whatever the order in which the tables list their entries, the container
\* run_uvsim returns is the same.
OrderIndependence ==
    pc[0] = "done" =>
        \A p \in Permutations(1..Len(BuiltList)) :
            RunSim(Permuted(BuiltList, p), Npus) = {uvdata_out}

\* A finished run of three or more tasks whose visibilities differ, two of
\* them with the same bin and not null.
OrderWitness ==
    /\ pc[0] = "done"
    /\ Len(BuiltList) >= 3
    /\ \E i, j, k \in 1..Len(BuiltList) :
          /\ j # k
          /\ BuiltList[j].uvdata_index = BuiltList[k].uvdata_index
          /\ make_visibility(BuiltList[i]) # make_visibility(BuiltList[k])
          /\ make_visibility(BuiltList[k]) # Zero4

\* A rank is past its compute loop.
LoopDone(r) ==
    \/ pc[r] \in {"gather", "returned", "merge", "merged", "done"}
    \/ (pc[r] = "compute" /\ count[r] = Len(local_task_list[r]) /\ scatter_sent)

\* A task with its visibility computed.
Computed(task) == [task EXCEPT !.visibility_vector = make_visibility(task)]

\* C5: after its loop the table of a rank has exactly one entry for each
\* destination index of its shard, holding the sum of the visibilities of
\* the shard's tasks with that index; and the returned container is the one
\* obtained by adding every single task's visibility into the container.
LocalReductionEquivalence ==
    /\ \A r \in Ranks : LoopDone(r) =>
          /\ DOMAIN summed_task_dict[r] =
                {local_task_list[r][k].uvdata_index : k \in 1..Len(local_task_list[r])}
          /\ \A d \in DOMAIN summed_task_dict[r] :
                summed_task_dict[r][d].visibility_vector =
                    SumVis(local_task_list[r], TasksOfBin(local_task_list[r], d))
    /\ pc[0] = "done" =>
          uvdata_out = serial_gather([k \in 1..Len(BuiltList) |-> Computed(BuiltList[k])],
                                     initialize_uvdata(BuiltList))

\* A finished run in which a rank folded four tasks into two entries.
LocalReductionWitness ==
    /\ pc[0] = "done"
    /\ \E r \in Ranks :
          /\ Len(local_task_list[r]) = 4
          /\ Cardinality(DOMAIN summed_task_dict[r]) = 2
          /\ \A d \in DOMAIN summed_task_dict[r] :
                summed_task_dict[r][d].visibility_vector # Zero4

\* Some rank has an uncaught exception.
SomeRaised == \E r \in Ranks : pc[r] = "raised"

\* C6 as stated: an uncaught exception on any rank aborts the job, from
\* then on no rank goes on to a later step, and rank 0 never returns a
\* container from a run with an exception.
FailFastAsStated ==
    /\ [](pc[0] = "done" => \A r \in Ranks : exception[r] = "")
    /\ [][SomeRaised => pc' = pc]_vars
    /\ (SomeRaised ~> aborted)

\* C6, amended: an uncaught exception on any rank aborts the job; the rank
\* that raised takes no later step of run_uvsim, no rank takes a step once
\* Abort has been called, and rank 0 never returns a container from a run
\* with an exception.  (Other ranks may go on until Abort is called.)
FailFast ==
    /\ [](pc[0] = "done" => \A r \in Ranks : exception[r] = "")
    /\ [][\A r \in Ranks : pc[r] = "raised" => pc'[r] = "raised"]_vars
    /\ [][~aborted]_vars
    /\ (SomeRaised ~> aborted)

\* The job was aborted for an exception of a rank other than rank 0, raised
\* in its compute loop, while rank 0 waited in the gather.
FailFastWitness ==
    /\ aborted
    /\ Npus >= 2
    /\ pc[0] = "gather"
    /\ \E r \in Ranks \ {0} : pc[r] = "raised" /\ exception[r] = "ValueError"

\* a is a prefix of b.
IsPrefix(a, b) == Len(a) <= Len(b) /\ a = SubSeq(b, 1, Len(a))

\* C7: a rank that is in its compute loop or has computed a task holds the
\* shard the scatter of rank 0 sent it, which is its part of the split of
\* the whole built list, and has computed tasks of that shard only.
ScatterBarrier ==
    \A r \in Ranks :
        (pc[r] \in {"compute", "gather", "returned"} \/ engine_log[r] # <<>>) =>
            /\ scatter_sent
            /\ pc[0] \notin {"start", "build", "init_uvdata", "split", "scatter"}
            /\ Pristine(local_task_list[r]) = scatter_buf[r]
            /\ scatter_buf[r] = array_split(BuiltList, Npus)[r + 1]
            /\ IsPrefix(engine_log[r], scatter_buf[r])

\* A rank other than rank 0 has computed a task while rank 0 has not yet
\* started its own loop.
ScatterBarrierWitness ==
    \E r \in Ranks \ {0} :
        /\ engine_log[r] # <<>>
        /\ pc[0] = "compute"
        /\ count[0] = 0

\* C8: rank 0 merges only when every rank, itself and the ranks with an
\* empty shard included, has finished its loop and delivered its table;
\* what it merges is the entries of the tables of all Npus ranks, those of
\* a rank in the order its table listed them.
GatherBarrier ==
    pc[0] \in {"merge", "merged", "done"} =>
        /\ \A r \in Ranks :
              /\ r \in delivered
              /\ count[r] = Len(local_task_list[r])
              /\ full_tasklist[r] \in DictValues(summed_task_dict[r])
              /\ r # 0 => pc[r] = "returned"
        /\ pc[0] \in {"merged", "done"} =>
              uvtask_list = Flatten([i \in 1..Npus |-> full_tasklist[i - 1]])

\* Rank 0 is about to merge the tables of three ranks, one of them empty.
GatherBarrierWitness ==
    /\ pc[0] = "merge"
    /\ Npus = 3
    /\ \E r \in Ranks : full_tasklist[r] = <<>>
    /\ \E r \in Ranks \ {0} : full_tasklist[r] # <<>>

\* The run is over: aborted, or returned on every rank.
Terminated ==
    \/ aborted
    \/ (pc[0] = "done" /\ \A r \in Ranks \ {0} : pc[r] = "returned")

\* C9: under fair scheduling every run ends, returned on every rank or
\* aborted; no rank stays in the scatter or in the gather for ever.
Termination == <>Terminated

\* The job was aborted for an exception of rank 0 before the scatter while
\* another rank waited in the scatter.
TerminationWitness ==
    /\ aborted
    /\ ~scatter_sent
    /\ exception[0] # ""
    /\ \E r \in Ranks \ {0} : pc[r] = "scatter"

\* C10: the builder makes Nblts * Nfreqs * Nsrcs tasks; for every row b,
\* channel f and source s exactly one task has that source and the
\* destination index (b, 0, f); its time and baseline are those of row b,
\* its frequency that of channel f, and its visibility is None.
TaskBuilderComplete ==
    pc[0] \in {"init_uvdata", "split"} =>
        LET uv == args.input_uv
            tasks == uvtask_list
        IN  /\ Len(tasks) = uv.Nblts * uv.Nfreqs * Len(RunCatalog)
            /\ \A b \in 0..uv.Nblts - 1 : \A f \in 0..uv.Nfreqs - 1 :
               \A s \in 1..Len(RunCatalog) :
                  LET ks == {k \in 1..Len(tasks) :
                                /\ tasks[k].source = RunCatalog[s]
                                /\ tasks[k].uvdata_index = <<b, 0, f>>}
                  IN  /\ Cardinality(ks) = 1
                      /\ \A k \in ks :
                            /\ tasks[k].time = uv.time_array[b + 1]
                            /\ tasks[k].freq = uv.freq_array[f + 1]
                            /\ tasks[k].baseline.antenna1.number = uv.ant_1_array[b + 1]
                            /\ tasks[k].baseline.antenna2.number = uv.ant_2_array[b + 1]
                            /\ tasks[k].visibility_vector = None

\* A list has been built for two rows and two sources.
TaskBuilderWitness ==
    /\ pc[0] = "init_uvdata"
    /\ args.input_uv.Nblts = 2
    /\ Len(RunCatalog) = 2
    /\ Len(uvtask_list) = 4

\* The antennas of the tasks of a list.
AntennasOf(tasks) ==
    UNION {{tasks[k].baseline.antenna1, tasks[k].baseline.antenna2} : k \in 1..Len(tasks)}

\* C11: a call with several beams and no beam_dict raises ValueError in the
\* task builder and leaves no task; in every task list that is built, each
\* antenna has beam id 0 when no beam_dict was given (and then there is at
\* most one beam), and the beam id beam_dict gives its name otherwise.
BeamAssignment ==
    /\ (Len(args.beam_list) > 1 /\ args.beam_dict = None) =>
          /\ uvtask_list = <<>>
          /\ pc[0] \in {"start", "build", "raised"}
          /\ pc[0] = "raised" => exception[0] = "ValueError"
    /\ pc[0] \in {"init_uvdata", "split", "scatter"} =>
          /\ args.beam_dict = None => Len(args.beam_list) <= 1
          /\ \A ant \in AntennasOf(uvtask_list) :
                ant.beam_id = IF args.beam_dict = None THEN 0 ELSE args.beam_dict[ant.name + 1]

\* The builder has refused two beams without a beam_dict, and no task exists.
BeamAssignmentWitness ==
    /\ pc[0] = "raised"
    /\ exception[0] = "ValueError"
    /\ Len(args.beam_list) = 2
    /\ args.beam_dict = None
    /\ uvtask_list = <<>>

\* The tasks of a list, as a set.
TaskSet(tasks) == {tasks[k] : k \in 1..Len(tasks)}

\* Lexicographic order of triples of integers.
LexLess(x, y) ==
    \/ x[1] < y[1]
    \/ (x[1] = y[1] /\ x[2] < y[2])
    \/ (x[1] = y[1] /\ x[2] = y[2] /\ x[3] < y[3])

\* Baselines ordered by (antenna1.number, antenna2.number), as one integer.
BaselineRank(bl) == bl.antenna1.number * (MaxNblts + 2) + bl.antenna2.number

\* (frequency index, time-row index, baseline): the key the stated order has.
StatedKey(t) == <<t.uvdata_index[3], t.uvdata_index[1], BaselineRank(t.baseline)>>
\* (baseline, frequency index, time-row index): the key of the comparisons.
CodeKey(t) == <<BaselineRank(t.baseline), t.uvdata_index[3], t.uvdata_index[1]>>

\* C12 as stated: on the tasks of a built list, a < b exactly when the
\* (frequency index, time-row index, baseline) of a is lexicographically
\* smaller, < is irreflexive and transitive, and of two distinct tasks
\* exactly one is smaller than the other.
TaskOrderAsStated ==
    pc[0] = "init_uvdata" =>
        LET T == TaskSet(uvtask_list)
        IN  /\ \A a, b \in T : UVTask_lt(a, b) <=> LexLess(StatedKey(a), StatedKey(b))
            /\ \A a \in T : ~UVTask_lt(a, a)
            /\ \A a, b, c \in T : UVTask_lt(a, b) /\ UVTask_lt(b, c) => UVTask_lt(a, c)
            /\ \A a, b \in T : a # b => (UVTask_lt(a, b) <=> ~UVTask_lt(b, a))

\* C12, amended: on the tasks of a built list, a < b exactly when the
\* (baseline, frequency index, time-row index) of a is lexicographically
\* smaller; < is irreflexive and transitive, > is its converse, <= and >=
\* are the negations of > and <; and of two tasks that differ in that key
\* exactly one is smaller, while tasks that differ only in their source are
\* not ordered.
TaskOrder ==
    pc[0] = "init_uvdata" =>
        LET T == TaskSet(uvtask_list)
        IN  /\ \A a, b \in T :
                  /\ UVTask_lt(a, b) <=> LexLess(CodeKey(a), CodeKey(b))
                  /\ UVTask_gt(a, b) <=> UVTask_lt(b, a)
                  /\ UVTask_le(a, b) <=> ~UVTask_gt(a, b)
                  /\ UVTask_ge(a, b) <=> ~UVTask_lt(a, b)
                  /\ CodeKey(a) # CodeKey(b) => (UVTask_lt(a, b) <=> ~UVTask_lt(b, a))
                  /\ CodeKey(a) = CodeKey(b) => ~UVTask_lt(a, b) /\ ~UVTask_lt(b, a)
            /\ \A a \in T : ~UVTask_lt(a, a)
            /\ \A a, b, c \in T : UVTask_lt(a, b) /\ UVTask_lt(b, c) => UVTask_lt(a, c)

\* A built list holds a task that is smaller than another one of a lower
\* frequency index, because its baseline is smaller.
TaskOrderWitness ==
    /\ pc[0] = "init_uvdata"
    /\ \E a, b \in TaskSet(uvtask_list) :
          /\ UVTask_lt(a, b)
          /\ a.uvdata_index[3] > b.uvdata_index[3]
          /\ a.uvdata_index[1] < b.uvdata_index[1]

\* The last direct call was a position update of the Source.
PositionUpdated == last_call.op \in {"az_za_calc", "pos_lmn"}

\* The direction cosines of a source at a time, computed afresh.
FreshLmn(name, time) == pos_lmn(None, NamedSource(name), time)

\* C13: whatever position queries a Source has answered before, pos_lmn
\* returns the direction cosines of the source at the time of the call.
CachedPositionFresh ==
    last_call.op = "pos_lmn" => last_call.ret = FreshLmn(last_call.name, last_call.time)

\* C14 as stated: after a position update of a Source whose zenith angle at
\* the time of the update exceeds 90 degrees, az_za is None.
HorizonClearsAzZaAsStated ==
    (PositionUpdated /\ ZenithAngle(last_call.name, last_call.time) > HorizonZa) =>
        src_obj.az_za = None

\* C14, amended: after a position update the Source's az_za is never None:
\* it holds an (azimuth, zenith angle) pair computed for the source, the
\* one of the time of the call after az_za_calc; and when the zenith angle
\* it holds exceeds 90 degrees, pos_lmn has returned None.
HorizonKeepsAzZa ==
    PositionUpdated =>
        /\ src_obj.az_za # None
        /\ \E t \in QueryTimes :
              src_obj.az_za = <<Azimuth(src_obj.name, t), ZenithAngle(src_obj.name, t)>>
        /\ last_call.op = "az_za_calc" =>
              /\ src_obj.az_za = <<Azimuth(src_obj.name, last_call.time),
                                   ZenithAngle(src_obj.name, last_call.time)>>
              /\ last_call.ret = src_obj.az_za
        /\ last_call.op = "pos_lmn" =>
              (last_call.ret = None <=> src_obj.az_za[2] > HorizonZa)

\* pos_lmn has returned None for a source below the horizon, and the
\* source holds its zenith angle of 120 degrees.
HorizonKeepsAzZaWitness ==
    /\ last_call.op = "pos_lmn"
    /\ last_call.ret = None
    /\ src_obj.az_za = <<0, 120>>
    /\ ZenithAngle(src_obj.name, last_call.time) = 120

\* A task of a source at a time on the baseline (0, n), all beams tophat.
ProbeTask(name, time, n, freq) ==
    UVTask(NamedSource(name), time, freq, Baseline(Antenna(0, None), Antenna(n, None)),
           Telescope(<<TophatBeam>>), 0, 0)

\* C15: pos_lmn returns None exactly when the zenith angle of the source at
\* the time of the call is strictly greater than 90 degrees; and
\* make_visibility is the zero vector for every task of a source below the
\* horizon, on every baseline and at every frequency.
HorizonMask ==
    /\ last_call.op = "pos_lmn" =>
          (last_call.ret = None <=> ZenithAngle(last_call.name, last_call.time) > HorizonZa)
    /\ \A name \in SourceNames \cup {"p"} : \A time \in QueryTimes :
       \A n \in 0..MaxNblts : \A f \in 1..MaxNfreqs :
          ZenithAngle(name, time) > HorizonZa =>
              /\ ~MakeVisibilityRaises(ProbeTask(name, time, n, 100 + 50 * (f - 1)))
              /\ make_visibility(ProbeTask(name, time, n, 100 + 50 * (f - 1))) = Zero4

\* C16: Source(...) raises, and no Source exists, exactly when ra is no
\* Angle, dec is no Angle or freq is no Quantity; the message is that of
\* the first bad one in the order ra, dec, freq; with all three good the
\* Source exists, its az_za None.
SourceConstructorChecks ==
    last_call.op = "Source" =>
        LET ra == last_call.ok[1]
            dec == last_call.ok[2]
            freq == last_call.ok[3]
        IN  /\ (last_call.raised = "") <=> (ra /\ dec /\ freq)
            /\ last_call.raised # "" => src_obj = NoSource
            /\ last_call.raised = "" => src_obj = [name |-> last_call.name, az_za |-> None]
            /\ ~ra => last_call.raised = "ra must be an astropy Angle object"
            /\ (ra /\ ~dec) => last_call.raised = "dec must be an astropy Angle object"
            /\ (ra /\ dec /\ ~freq) =>
                  last_call.raised = "freq must be an astropy Quantity object"

\* A constructor call with ra, dec and freq all malformed has raised for ra.
SourceConstructorWitness ==
    /\ last_call.op = "Source"
    /\ last_call.ok = <<FALSE, FALSE, FALSE>>
    /\ last_call.raised = "ra must be an astropy Angle object"
    /\ src_obj = NoSource

\* A beam without the shape parameter of its type.
MissingShape(beam) ==
    \/ (beam.type = "gaussian" /\ beam.sigma = None /\ beam.diameter = None)
    \/ (beam.type = "airy" /\ beam.diameter = None)

\* C17: constructing a gaussian beam with neither sigma nor diameter, or an
\* airy beam without diameter, fails, so that no beam object without its
\* shape parameter ever exists.
BeamShapeAtConstructionAsStated == ~MissingShape(beam_obj)

\* C18: the errors of a malformed configuration are raised before the
\* scatter: no rank raises once it has entered its compute loop, where
\* engine_log holds the tasks it has made a UVEngine for.
ConfigErrorsBeforeScatterAsStated ==
    \A r \in Ranks : pc[r] = "raised" => engine_log[r] = <<>>

RECURSIVE SumStokesI(_)
\* The total Stokes I of a catalog.
SumStokesI(catalog) ==
    IF catalog = <<>> THEN 0 ELSE Head(catalog).stokes[1] + SumStokesI(Tail(catalog))

\* Every task of the run sees its source at the zenith through tophat beams.
AllAtZenith ==
    /\ args.beam_list = <<TophatBeam>>
    /\ \A k \in 1..Len(BuiltList) :
          az_za_calc(BuiltList[k].source, BuiltList[k].time)[2] = 0

\* C19: with tophat (uniform) beams and level baselines, the visibility of
\* an unpolarized source of Stokes I at the zenith is (I/2, I/2, 0, 0), that
\* is (0.5, 0.5, 0, 0) for I = 1; and the run of a catalog of zenith sources
\* leaves half their total flux, 0.5 for N sources of flux 1/N, in the xx
\* entry of every bin.  (A visibility of v Jy is v * FluxUnit * Unity *
\* Unity here.)
ZenithVisibility ==
    /\ \A r \in Ranks :
          (AllAtZenith /\ count[r] = 1) =>
              LET task == local_task_list[r][1]
                  I == task.source.stokes[1]
              IN  summed_task_dict[r][task.uvdata_index].visibility_vector =
                      <<(I \div 2) * Unity * Unity, (I \div 2) * Unity * Unity, 0, 0>>
    /\ (AllAtZenith /\ pc[0] = "done") =>
          \A d \in DOMAIN uvdata_out :
              2 * uvdata_out[d][1] = SumStokesI(RunCatalog) * Unity * Unity

\* C20: coherency_calc on a source with Q = U = V = 0, at any time, uses
\* the identity for its rotation and returns the coherency of the ra/dec
\* basis, I/2 on the diagonal and 0 off it.
UnpolarizedCoherency ==
    (last_call.op = "coherency_calc" /\ StokesQ(last_call.name) = 0) =>
        LET source == NamedSource(last_call.name)
            I == StokesI(last_call.name)
        IN  /\ source.stokes = <<I, 0, 0, 0>>
            /\ rotation_matrix(source, last_call.time) = <<<<1, 0>>, <<0, 1>>>>
            /\ last_call.ret = source.coherency_radec
            /\ last_call.ret[1][2] = 0 /\ last_call.ret[2][1] = 0
            /\ 2 * last_call.ret[1][1] = I /\ 2 * last_call.ret[2][2] = I

\* coherency_calc has answered for the unpolarized source "b" of Stokes
\* I = 4 at a time when it is below the horizon.
UnpolarizedCoherencyWitness ==
    /\ last_call.op = "coherency_calc"
    /\ last_call.name = "b"
    /\ last_call.time = 2
    /\ last_call.ret = <<<<2, 0>>, <<0, 2>>>>

\* The az_za a fresh copy of each Source holds after the first n tasks of a
\* log have been computed on it.
RECURSIVE AzZaAfter(_, _)
AzZaAfter(log, n) ==
    IF n = 0 THEN [name \in MockNames |-> None]
    ELSE [AzZaAfter(log, n - 1) EXCEPT ![log[n].source.name] = az_za_calc(log[n].source, log[n].time)]

\* The beams (positions of beam_list) that get_beam_jones has reached in
\* the tasks of a log.
BeamsTouched(log) ==
    {log[k].baseline.antenna1.beam_id + 1 : k \in 1..Len(log)}
    \cup {log[k].baseline.antenna2.beam_id + 1 :
             k \in {j \in 1..Len(log) : ~BeamJonesRaises(log[j].baseline.antenna1, log[j].telescope)}}

\* C21: what a rank holds is a function of its own shard and of the tasks it
\* has computed itself: it computes tasks of its shard only, its copy of
\* each Source holds the az_za of the last task it computed on that source
\* (None if it computed none), its copy of a beam has the interpolation
\* function set exactly if one of its own tasks reached that beam, its
\* table is the reduction of the tasks it has completed (with the task at
\* which it raised filed, if it raised), and the tasks of
\* its list carry what its own table holds.  Nothing another rank computes
\* shows in them.
NoSharedState ==
    \A r \in Ranks :
        /\ IsPrefix(engine_log[r], Pristine(local_task_list[r]))
        /\ worker_az_za[r] = AzZaAfter(engine_log[r], Len(engine_log[r]))
        /\ \A b \in 1..Len(args.beam_list) :
              (worker_interp[r][b] = <<"az_za_simple">>) <=> (b \in BeamsTouched(engine_log[r]))
        /\ \A b \in 1..Len(args.beam_list) : worker_interp[r][b] \in {None, <<"az_za_simple">>}
        /\ summed_task_dict[r] =
              IF Len(engine_log[r]) > count[r]
              THEN FileTask(LocalReduce(Pristine(local_task_list[r]), count[r]),
                            engine_log[r][count[r] + 1])
              ELSE LocalReduce(Pristine(local_task_list[r]), count[r])
        /\ local_task_list[r] = AliasTable(Pristine(local_task_list[r]), summed_task_dict[r])

\* Two ranks have each computed a task of the same source at different
\* times: their copies of the source hold different positions, and a third
\* rank, which has computed nothing, has set nothing on its beam.
NoSharedStateWitness ==
    \E r1, r2, r3 \in Ranks :
        /\ worker_az_za[r1]["src0"] = <<0, 0>>
        /\ worker_az_za[r2]["src0"] = <<270, 120>>
        /\ worker_interp[r1][1] = <<"az_za_simple">>
        /\ worker_interp[r3][1] = None
        /\ summed_task_dict[r1] # <<>>
        /\ summed_task_dict[r3] = <<>>

\* How many times, on all ranks together, a UVEngine was made for a task.
EngineCount(task) ==
    Cardinality({rj \in Ranks \X (1..MaxTasks) :
                    rj[2] <= Len(engine_log[rj[1]]) /\ engine_log[rj[1]][rj[2]] = task})

\* C22: a UVEngine is made only for tasks of the built list and never twice
\* for one task, on any ranks; when rank 0 merges, every built task has
\* been computed exactly once; the returned container holds every task's
\* visibility added exactly once; and by then every loop is over, so that
\* no task is computed after it has been folded.
TaskConsumedOnce ==
    /\ \A r \in Ranks : \A j \in 1..Len(engine_log[r]) :
          /\ engine_log[r][j] \in TaskSet(BuiltList)
          /\ EngineCount(engine_log[r][j]) = 1
    /\ pc[0] \in {"merge", "merged", "done"} =>
          /\ \A k \in 1..Len(BuiltList) : EngineCount(BuiltList[k]) = 1
          /\ \A r \in Ranks : pc[r] # "compute" /\ count[r] = Len(engine_log[r])
    /\ pc[0] = "done" =>
          /\ uvdata_out = serial_gather([k \in 1..Len(BuiltList) |-> Computed(BuiltList[k])],
                                        [d \in DOMAIN uvdata_out |-> Zero4])
          /\ \A d \in DOMAIN uvdata_out : TasksOfBin(BuiltList, d) # {}

\* A finished run of three ranks in which the tasks of one bin were
\* computed on different ranks.
TaskConsumedWitness ==
    /\ pc[0] = "done"
    /\ Npus = 3
    /\ Len(BuiltList) = 4
    /\ \E r1, r2 \in Ranks :
          /\ r1 # r2
          /\ engine_log[r1] # <<>> /\ engine_log[r2] # <<>>
          /\ engine_log[r1][1].uvdata_index = engine_log[r2][1].uvdata_index

\* The state of the distributed executor: 1 Idle, 2 TasksBuilt (rank 0
\* holds the built list), 3 Partitioned (it holds the shards), 4 Computing
\* (the scatter has sent them), 5 LocallyReduced (every loop is over),
\* 6 Gathered (the gather has returned on rank 0), 7 Merged (serial_gather
\* has filled the container), 8 Done (run_uvsim has returned it).
ExecutorState ==
    IF pc[0] = "done" THEN 8
    ELSE IF pc[0] = "merged" THEN 7
    ELSE IF pc[0] = "merge" THEN 6
    ELSE IF scatter_sent /\ \A r \in Ranks : LoopDone(r) THEN 5
    ELSE IF scatter_sent THEN 4
    ELSE IF split_list # <<>> THEN 3
    ELSE IF uvtask_list # <<>> THEN 2
    ELSE 1

\* C23: every step of a run leaves the executor in its state or takes it
\* to the next one of Idle, TasksBuilt, Partitioned, Computing,
\* LocallyReduced, Gathered, Merged, Done; the container, once
\* initialize_uvdata has made it, changes only in the step from Gathered to
\* Merged; and no step is taken in Done.
StateOrder ==
    /\ [][ExecutorState' = ExecutorState \/ ExecutorState' = ExecutorState + 1]_vars
    /\ [][(uv_container' # uv_container /\ ExecutorState # 2) =>
              (ExecutorState = 6 /\ ExecutorState' = 7)]_vars
    /\ [][(ExecutorState = 2 /\ uv_container' # uv_container) =>
              (uv_container = None /\ \A d \in DOMAIN uv_container' : uv_container'[d] = Zero4)]_vars
    /\ [][ExecutorState # 8]_vars

\* A run of three ranks has gone through all the states and returned a
\* container that is not zero.
StateOrderWitness ==
    /\ ExecutorState = 8
    /\ Npus = 3
    /\ \A r \in Ranks : engine_log[r] # <<>>
    /\ \E d \in DOMAIN uvdata_out : uvdata_out[d] # Zero4

\* C24: a run on a geometry whose polarizations are not XX, YY, XY, YX
\* builds no task and sends none: every rank is at the start of run_uvsim
\* or has raised ValueError there.
PolarizationChecked ==
    args.input_uv.polarization_array # <<-5, -6, -7, -8>> =>
        /\ uvtask_list = <<>>
        /\ ~scatter_sent
        /\ \A r \in Ranks :
              /\ pc[r] \in {"start", "raised"}
              /\ pc[r] = "raised" => exception[r] = "ValueError"

\* A source is below the horizon at every time of a geometry.
NeverUp(source, uv) ==
    \A b \in 1..uv.Nblts : az_za_calc(source, uv.time_array[b])[2] > HorizonZa

\* A catalog without the sources that are never up.
HorizonCut(catalog, uv) ==
    LET Up(source) == ~NeverUp(source, uv)
    IN  SelectSeq(catalog, Up)

\* C25: the container a run returns is the one the run on the catalog
\* without the sources that are below the horizon at every time of the
\* geometry returns.
HorizonCutEquivalent ==
    pc[0] = "done" =>
        LET cut == RunOutcome(args.input_uv, HorizonCut(RunCatalog, args.input_uv),
                              args.beam_list, args.beam_dict, Npus)
        IN  cut.exc = "" /\ cut.out = {uvdata_out}

\* C26: interp of an airy beam with a dish diameter, at zenith angle 0,
\* raises nothing and gives exactly 1, at every frequency and for every
\* diameter; xvals is 0 there, and the value is the limit 1, not 2 j1(x) / x.
AiryAtZenith ==
    /\ (last_call.op = "interp" /\ beam_obj.type = "airy" /\ beam_obj.diameter # None
           /\ last_call.ok[1] = 0) =>
          /\ last_call.raised = ""
          /\ last_call.ret = <<Unity>>
    /\ \A d \in Diameters : \A freq \in InterpFreqs :
          /\ airy_xvals(d, 0, freq) = 0
          /\ airy_values(airy_xvals(d, 0, freq)) = Unity

\* interp has answered 1 for an airy beam of a 14 m dish at the zenith, at
\* 100 MHz.
AiryAtZenithWitness ==
    /\ last_call.op = "interp"
    /\ beam_obj.type = "airy"
    /\ beam_obj.diameter = <<14>>
    /\ last_call.ok = <<0, 100000000>>
    /\ last_call.ret = <<Unity>>

\* C27: initialize_catalog_from_params raises TypeError for an input_uv
\* that is given and is no UVData; otherwise KeyError for a 'sources'
\* section without 'catalog'; otherwise, for the mock catalog, ValueError
\* when neither 'time' nor input_uv is given; and with input_uv and no
\* 'time' it returns the catalog of the first time of input_uv, which is
\* the catalog it returns when that time is given in the section.
CatalogFromParams ==
    last_call.op = "initialize_catalog_from_params" =>
        LET source_params == last_call.ok[1]
            input_uv == last_call.ok[2]
            bad_uv == input_uv.given /\ ~input_uv.is_uvdata
        IN  /\ bad_uv => last_call.raised = "TypeError"
            /\ (~bad_uv /\ ~source_params.has_catalog) => last_call.raised = "KeyError"
            /\ (~input_uv.given /\ source_params.has_catalog /\ ~source_params.has_time) =>
                  last_call.raised = "ValueError"
            /\ (~bad_uv /\ source_params.has_catalog
                   /\ (source_params.has_time \/ input_uv.given)) => last_call.raised = ""
            /\ (input_uv.given /\ input_uv.is_uvdata /\ source_params.has_catalog
                   /\ ~source_params.has_time) =>
                  LET first == input_uv.uv.time_array[1]
                      explicit == [source_params EXCEPT !.has_time = TRUE, !.time = first]
                  IN  /\ last_call.ret = create_mock_catalog(first, source_params.Nsrcs)
                      /\ last_call.ret =
                            initialize_catalog_from_params(explicit, input_uv).catalog

\* A mock catalog of two sources was made without 'time' from a geometry
\* whose times are 1, 2, ...: it is the catalog of time 1.
CatalogFromParamsWitness ==
    /\ last_call.op = "initialize_catalog_from_params"
    /\ last_call.raised = ""
    /\ ~last_call.ok[1].has_time
    /\ last_call.ok[2].uv.time_array = [b \in 1..MaxNblts |-> b]
    /\ last_call.ret = <<"src0@1", "src1@1">>

\* C28: the configuration loopback is a fixed point: the time and frequency
\* dictionaries written for a geometry equal the dictionaries written for
\* the geometry that initialize_uvdata_from_params builds from them.
ConfigLoopbackFixedPoint ==
    last_call.op = "uvdata_to_config_file" =>
        /\ last_call.raised = ""
        /\ last_call.ret[2].time = last_call.ret[1].time
        /\ last_call.ret[2].freq = last_call.ret[1].freq

\* The az_za values a Source can hold when a task reaches it: None, or its
\* position at one of the times of the geometry.
HeldPositions(task) ==
    {None} \cup {az_za_calc(task.source, args.input_uv.time_array[b]) :
                    b \in 1..args.input_uv.Nblts}

\* C29: in the compute loop of a rank, every task is computed with the
\* position of its source at the task's own time: the step that completes a
\* task leaves az_za of that time on the rank's Source and adds to the table
\* the visibility of that time, and it would do so whatever position an
\* earlier task had left on the Source.
PerTaskPosition ==
    [][\A r \in Ranks :
          count'[r] = count[r] + 1 =>
              LET task == local_task_list[r][count[r] + 1]
              IN  /\ worker_az_za'[r][task.source.name] = az_za_calc(task.source, task.time)
                  /\ summed_task_dict'[r] =
                         ReduceStep(summed_task_dict[r], task, make_visibility(task))
                  /\ \A held \in HeldPositions(task) :
                         make_visibility_cached(held, task) = make_visibility(task)]_vars

\* A rank has computed a task of one source at a time when the source is at
\* the zenith and then a task of the same source at a time when it is below
\* the horizon; the Source holds the later position, and the entry of the
\* later task is null while that of the earlier is not.
PerTaskPositionWitness ==
    \E r \in Ranks : \E j, k \in 1..count[r] :
        /\ j < k
        /\ engine_log[r][j].source.name = engine_log[r][k].source.name
        /\ az_za_calc(engine_log[r][j].source, engine_log[r][j].time) = <<0, 0>>
        /\ az_za_calc(engine_log[r][k].source, engine_log[r][k].time) = <<270, 120>>
        /\ worker_az_za[r][engine_log[r][k].source.name] = <<270, 120>>
        /\ make_visibility(engine_log[r][j]) # Zero4
        /\ summed_task_dict[r][engine_log[r][k].uvdata_index].visibility_vector = Zero4
        /\ summed_task_dict[r][engine_log[r][j].uvdata_index].visibility_vector # Zero4

\* The globals of pyuvsim.mpi are well defined: as the import left them
\* while start_mpi has not been called (the hook is the one of the import
\* or the one a call of set_mpi_excepthook has installed), those of
\* COMM_WORLD afterwards.
MpiGlobalsDefined(module, world_size) ==
    /\ get_comm(module) = None =>
          /\ get_rank(module) = 0
          /\ get_Npus(module) = 1
          /\ module.excepthook \in {"sys.__excepthook__", "uvsim.mpi_excepthook",
                                    "mpi_excepthook"}
    /\ get_comm(module) # None =>
          /\ get_comm(module) = COMM_WORLD
          /\ get_rank(module) = module.world_rank
          /\ get_Npus(module) = world_size
          /\ module.excepthook = "mpi_excepthook"
          /\ module.initialized

\* C30: the state of the mpi module is well defined after any sequence of
\* calls: before start_mpi is ever called get_rank() is 0, get_Npus() is 1
\* and get_comm() is None; after start_mpi they are the rank and size of
\* the world communicator and the communicator, and the exception hook that
\* aborts the job is installed; start_mpi never fails, whether MPI is
\* initialized already or not, and a second start_mpi leaves rank, Npus
\* and comm as they are.
MpiModuleState ==
    [][/\ MpiGlobalsDefined(mpi_module, Npus)
       /\ MpiGlobalsDefined(mpi_module', Npus')
       /\ last_call'.op = "get_rank" => last_call'.ret = <<get_rank(mpi_module)>>
       /\ last_call'.op = "get_Npus" => last_call'.ret = <<get_Npus(mpi_module)>>
       /\ last_call'.op = "get_comm" => last_call'.ret = <<get_comm(mpi_module)>>
       /\ last_call'.op = "start_mpi" =>
             /\ last_call'.raised = ""
             /\ pc' = pc
             /\ get_comm(mpi_module') = COMM_WORLD
             /\ get_comm(mpi_module) # None =>
                   /\ get_rank(mpi_module') = get_rank(mpi_module)
                   /\ get_Npus(mpi_module') = get_Npus(mpi_module)
                   /\ get_comm(mpi_module') = get_comm(mpi_module)
       /\ aborted' => HookAborts(mpi_module.excepthook)
       /\ get_comm(mpi_module') # None => HookAborts(mpi_module'.excepthook)]_vars

====
